---- MODULE Spec2Model ----
(***************************************************************************)
(* Model of the scenario quality checker                                   *)
(* (src/quality_checker/quality_checker.py).                               *)
(*                                                                         *)
(* Python values are encoded as follows.                                   *)
(*   None            [py |-> "None"]                                       *)
(*   str s           [py |-> "str", v |-> s]                               *)
(*   int n           [py |-> "int", v |-> n]                               *)
(*   float v         [f |-> v]   (v an integer; metres, m/s)               *)
(*   list / tuple    sequence                                              *)
(*   dict            sequence of <<key, value>> in insertion order         *)
(*   list(set(..))   set (the order of such a list is unspecified), or,    *)
(*                   where the number of occurrences matters, a sequence   *)
(*                   without duplicates (ListOfSet)                        *)
(* A call that raises yields [raised |-> TRUE]; a call that returns yields *)
(* [raised |-> FALSE, value |-> ...].                                      *)
(***************************************************************************)
EXTENDS Integers, Sequences, FiniteSets, TLC

None == [py |-> "None"]
PyStr(s) == [py |-> "str", v |-> s]
PyInt(n) == [py |-> "int", v |-> n]
PyFloat(v) == [f |-> v]

Raised == [raised |-> TRUE]
Return(v) == [raised |-> FALSE, value |-> v]

Range(s) == {s[i] : i \in 1..Len(s)}

\* dict: d[k] = v  (an existing key keeps its place)
DictSet(d, k, v) ==
    IF \E i \in 1..Len(d) : d[i][1] = k
    THEN [i \in 1..Len(d) |-> IF d[i][1] = k THEN <<k, v>> ELSE d[i]]
    ELSE Append(d, <<k, v>>)

DictKeys(d) == [i \in 1..Len(d) |-> d[i][1]]
DictValues(d) == [i \in 1..Len(d) |-> d[i][2]]
DictHas(d, k) == \E i \in 1..Len(d) : d[i][1] = k
DictGet(d, k) == d[CHOOSE i \in 1..Len(d) : d[i][1] = k][2]

(***************************************************************************)
(* Bounds of the input sets                                                *)
(***************************************************************************)
MaxInitEntities == 4    \* entries of an init-position map (duplicate check)
MaxObjects == 3         \* scenario objects of the intersection check

(***************************************************************************)
(* The scenario object model, as far as the checker reads it.              *)
(*   scenario.entities.scenario_objects : sequence of                      *)
(*       [name, vehicle_type, boundingbox]                                 *)
(*     vehicle_type = [name |-> t], or NoAttr when entityobject has none   *)
(*     boundingbox  = [length |-> l, width |-> w], or NoAttr               *)
(*   scenario.storyboard.init.initactions : sequence of <<entity, actions>>*)
(*   init actions : [type |-> "TeleportAction", position |-> p]            *)
(*                  [type |-> "AbsoluteSpeedAction", speed |-> v]          *)
(***************************************************************************)
NoAttr == [absent |-> TRUE]

WorldPosition(x, y) == [type |-> "WorldPosition", x |-> x, y |-> y]
LanePosition == [type |-> "LanePosition"]
TeleportAction(p) == [type |-> "TeleportAction", position |-> p]
AbsoluteSpeedAction(v) == [type |-> "AbsoluteSpeedAction", speed |-> v]

\* the sentinel position ('-', '-')
Sentinel == <<PyStr("-"), PyStr("-")>>

\* isinstance(v, float)
IsFloat(v) == "f" \in DOMAIN v

(***************************************************************************)
(* Program constants                                                       *)
(***************************************************************************)
\* 1 / 1e-6: the numeric-noise floor of the parked test and of the prefilter
NoiseFloorInv == 1000000
\* -np.inf, in the domain of squared radii (every square is above it)
NegInf == -1

(***************************************************************************)
(* FileQualityChecker._get_entities                                        *)
(***************************************************************************)
RECURSIVE TypedEntities(_, _, _)
\* the try block: entities[name] = entityobject.vehicle_type.name, in order;
\* AttributeError at the first object without a vehicle type
TypedEntities(scenario_objects, i, entities) ==
    IF i > Len(scenario_objects) THEN Return(entities)
    ELSE IF scenario_objects[i].vehicle_type = NoAttr THEN Raised
    ELSE TypedEntities(scenario_objects, i + 1,
            DictSet(entities, scenario_objects[i].name,
                    PyStr(scenario_objects[i].vehicle_type.name)))

RECURSIVE DictFromKeys(_, _, _)
\* dict.fromkeys(entity_list)
DictFromKeys(keys, i, d) ==
    IF i > Len(keys) THEN d
    ELSE DictFromKeys(keys, i + 1, DictSet(d, keys[i], None))

_get_entities(scenario) ==
    LET objs == scenario.scenario_objects
        typed == TypedEntities(objs, 1, <<>>)
    IN  IF ~typed.raised THEN typed.value
        ELSE DictFromKeys([i \in 1..Len(objs) |-> objs[i].name], 1, <<>>)

(***************************************************************************)
(* FileQualityChecker._get_initial_positions                               *)
(***************************************************************************)
RECURSIVE ScanInitActions(_, _, _, _)
\* the inner loop over one entity's init actions; acc = <<positions, parked>>
ScanInitActions(entity, initactions, i, acc) ==
    IF i > Len(initactions) THEN acc
    ELSE LET a == initactions[i]
             next ==
               IF a.type = "TeleportAction"
               THEN IF a.position.type = "WorldPosition"
                    THEN <<DictSet(acc[1], entity,
                              <<PyFloat(a.position.x), PyFloat(a.position.y)>>),
                           acc[2]>>
                    ELSE <<DictSet(acc[1], entity, Sentinel), acc[2]>>
               ELSE IF a.type = "AbsoluteSpeedAction"
               THEN IF IsFloat(a.speed) /\ a.speed.f * NoiseFloorInv < 1
                    THEN <<acc[1], Append(acc[2], entity)>>
                    ELSE acc
               ELSE acc
         IN  ScanInitActions(entity, initactions, i + 1, next)

RECURSIVE ScanEntities(_, _, _, _)
ScanEntities(scenario, entity_names, i, acc) ==
    IF i > Len(entity_names) THEN acc
    ELSE IF ~DictHas(scenario.initactions, entity_names[i])
    THEN ScanEntities(scenario, entity_names, i + 1, acc)
    ELSE ScanEntities(scenario, entity_names, i + 1,
            ScanInitActions(entity_names[i],
                DictGet(scenario.initactions, entity_names[i]), 1, acc))

\* returns <<init_positions, parked_entities>>
_get_initial_positions(scenario, entity_names) ==
    ScanEntities(scenario, entity_names, 1, <<<<>>, <<>>>>)

(***************************************************************************)
(* FileQualityChecker._get_identical_initposition_entities                 *)
(***************************************************************************)
RECURSIVE CounterItems(_, _, _)
\* Counter(values).items(): the distinct values in first-seen order, each
\* with the number of its occurrences
CounterItems(values, i, items) ==
    IF i > Len(values) THEN items
    ELSE IF \E j \in 1..(i - 1) : values[j] = values[i]
    THEN CounterItems(values, i + 1, items)
    ELSE CounterItems(values, i + 1,
            Append(items, <<values[i],
                Cardinality({j \in 1..Len(values) : values[j] = values[i]})>>))

\* list.index(item): 0-based position of the first occurrence, -1 for the
\* ValueError of an absent item
ListIndex(list, item) ==
    IF \E i \in 1..Len(list) : list[i] = item
    THEN (CHOOSE i \in 1..Len(list) :
             list[i] = item /\ \A j \in 1..(i - 1) : list[j] # item) - 1
    ELSE -1

RECURSIVE NextOccurrences(_, _, _, _, _)
\* for _ in range(count - 1): the chain of idx_new (all indices 0-based)
NextOccurrences(values, item, current_idx, remaining, idxs) ==
    IF remaining = 0 THEN Return(idxs)
    ELSE LET rest == SubSeq(values, current_idx + 2, Len(values))
             found == ListIndex(rest, item)
         IN  IF found < 0 THEN Raised
             ELSE NextOccurrences(values, item, current_idx + found + 1,
                      remaining - 1, Append(idxs, current_idx + found + 1))

RECURSIVE IdenticalClusters(_, _, _, _)
\* the loop over duplicates = [(i, item, count) ...  if count > 1], where i
\* is the position of the item among the Counter items
IdenticalClusters(init_positions, items, i, out) ==
    IF i > Len(items) THEN Return(out)
    ELSE IF items[i][2] <= 1
    THEN IdenticalClusters(init_positions, items, i + 1, out)
    ELSE LET idx == i - 1
             idxs == NextOccurrences(DictValues(init_positions), items[i][1],
                         idx, items[i][2] - 1, <<idx>>)
         IN  IF idxs.raised THEN Raised
             ELSE IdenticalClusters(init_positions, items, i + 1,
                     Append(out, [k \in 1..Len(idxs.value) |->
                                     DictKeys(init_positions)[idxs.value[k] + 1]]))

_get_identical_initposition_entities(init_positions) ==
    LET values == DictValues(init_positions)
    IN  IF Cardinality(Range(values)) # Len(values)
        THEN IdenticalClusters(init_positions, CounterItems(values, 1, <<>>), 1, <<>>)
        ELSE Return(<<>>)

(***************************************************************************)
(* Geometry.  Coordinates of a polygon are kept in half metres, so that    *)
(* position +/- length / 2 stays an integer.                               *)
(***************************************************************************)
Max(a, b) == IF a >= b THEN a ELSE b
Min(a, b) == IF a <= b THEN a ELSE b

\* shapely.Polygon(coords) of the four corners built at lines 518-523
FootprintCoords(init_position, length, width) ==
    << <<2 * init_position[1].f + length, 2 * init_position[2].f + width>>,
       <<2 * init_position[1].f + length, 2 * init_position[2].f - width>>,
       <<2 * init_position[1].f - length, 2 * init_position[2].f - width>>,
       <<2 * init_position[1].f - length, 2 * init_position[2].f + width>> >>

\* the bounding radius taken along the length of the rectangle only
BoundingDiameterSq_LengthOnly(polygon) ==
    ((polygon[1][1] - polygon[3][1]) * (polygon[1][1] - polygon[3][1])) \div 4

\* shapely.minimum_bounding_radius(polygon), as the square of twice the
\* radius in metres: the squared diagonal of the rectangle
BoundingDiameterSq(polygon) ==
    ((polygon[1][1] - polygon[3][1]) * (polygon[1][1] - polygon[3][1])
     + (polygon[1][2] - polygon[3][2]) * (polygon[1][2] - polygon[3][2])) \div 4

PolyMinX(polygon) == Min(Min(polygon[1][1], polygon[2][1]), Min(polygon[3][1], polygon[4][1]))
PolyMaxX(polygon) == Max(Max(polygon[1][1], polygon[2][1]), Max(polygon[3][1], polygon[4][1]))
PolyMinY(polygon) == Min(Min(polygon[1][2], polygon[2][2]), Min(polygon[3][2], polygon[4][2]))
PolyMaxY(polygon) == Max(Max(polygon[1][2], polygon[2][2]), Max(polygon[3][2], polygon[4][2]))

\* not polygons[a].intersection(polygons[b]).is_empty, for two closed
\* axis-aligned rectangles: a shared edge or corner is a non-empty geometry
PolygonsIntersect(p, q) ==
    /\ Max(PolyMinX(p), PolyMinX(q)) <= Min(PolyMaxX(p), PolyMaxX(q))
    /\ Max(PolyMinY(p), PolyMinY(q)) <= Min(PolyMaxY(p), PolyMaxY(q))

(***************************************************************************)
(* FileQualityChecker._get_entities_bbox                                   *)
(***************************************************************************)
RECURSIVE BBoxLoop(_, _, _, _)
\* acc = <<polygons, max_entity_radius>>, the radius as BoundingDiameterSq
BBoxLoop(scenario_objects, init_positions, i, acc) ==
    IF i > Len(scenario_objects) THEN acc
    ELSE LET scenario_object == scenario_objects[i]
             usable ==
               /\ DictHas(init_positions, scenario_object.name)
               /\ DictGet(init_positions, scenario_object.name) # Sentinel
               /\ scenario_object.boundingbox # NoAttr
             polygon == FootprintCoords(
                            DictGet(init_positions, scenario_object.name),
                            scenario_object.boundingbox.length,
                            scenario_object.boundingbox.width)
         IN  BBoxLoop(scenario_objects, init_positions, i + 1,
                 IF usable
                 THEN <<Append(acc[1], polygon),
                        IF BoundingDiameterSq(polygon) > acc[2]
                        THEN BoundingDiameterSq(polygon) ELSE acc[2]>>
                 ELSE acc)

_get_entities_bbox(scenario, init_positions) ==
    BBoxLoop(scenario.scenario_objects, init_positions, 1, <<<<>>, NegInf>>)

(***************************************************************************)
(* FileQualityChecker._get_intersecting_entities (filter_by_radius=True)   *)
(***************************************************************************)
\* the squared entry [a][b] of cdist(values, values), a and b 1-based
DistanceSq(values, a, b) ==
    (values[a][1].f - values[b][1].f) * (values[a][1].f - values[b][1].f)
    + (values[a][2].f - values[b][2].f) * (values[a][2].f - values[b][2].f)

\* np.where(np.logical_and(distances < 2 * max_entity_radius,
\*                         distances > 1e-6)) on the upper triangle (np.triu
\* zeroes the rest): the index pairs a < b in row-major order
\* (whole-metre coordinates: a distance is 0 or at least 1, so it is above
\* 1e-6 exactly when its integer part is)
FloorSqrt(n) == CHOOSE r \in 0..n : r * r <= n /\ n < (r + 1) * (r + 1)

\* the prefilter on the whole matrix, without np.triu
PrefilterHolds_NoTriu(values, a, b, max_entity_radius) ==
    /\ DistanceSq(values, a, b) < max_entity_radius
    /\ FloorSqrt(DistanceSq(values, a, b)) * NoiseFloorInv > 1

PrefilterHolds(values, a, b, max_entity_radius) ==
    /\ a < b
    /\ DistanceSq(values, a, b) < max_entity_radius
    /\ FloorSqrt(DistanceSq(values, a, b)) * NoiseFloorInv > 1

RECURSIVE PossibleIntersections(_, _, _, _, _)
PossibleIntersections(values, max_entity_radius, a, b, out) ==
    IF a > Len(values) THEN out
    ELSE IF b > Len(values)
    THEN PossibleIntersections(values, max_entity_radius, a + 1, 1, out)
    ELSE PossibleIntersections(values, max_entity_radius, a, b + 1,
            IF PrefilterHolds(values, a, b, max_entity_radius)
            THEN Append(out, <<a, b>>) ELSE out)

RECURSIVE IntersectionLoop(_, _, _, _, _)
\* for index_a, index_b in zip(...): polygons[index] raises IndexError when
\* the index is not below len(polygons)
IntersectionLoop(polygons, keys, pairs, i, out) ==
    IF i > Len(pairs) THEN Return(out)
    ELSE IF pairs[i][1] > Len(polygons) \/ pairs[i][2] > Len(polygons)
    THEN Raised
    ELSE IntersectionLoop(polygons, keys, pairs, i + 1,
            IF PolygonsIntersect(polygons[pairs[i][1]], polygons[pairs[i][2]])
            THEN Append(out, <<keys[pairs[i][1]], keys[pairs[i][2]]>>)
            ELSE out)

_get_intersecting_entities(scenario, init_positions) ==
    LET bbox == _get_entities_bbox(scenario, init_positions)
        polygons == bbox[1]
        max_entity_radius == bbox[2]
        values == DictValues(init_positions)
    IN  IF Len(polygons) > 1
        THEN \* cdist cannot convert the '-' of a sentinel position to float
             IF \E i \in 1..Len(values) : values[i] = Sentinel
             THEN Raised
             ELSE IntersectionLoop(polygons, DictKeys(init_positions),
                      PossibleIntersections(values, max_entity_radius, 1, 1, <<>>),
                      1, <<>>)
        ELSE Return(<<>>)

(***************************************************************************)
(* Storyboard.  scenario.maneuvergroups is the sequence of maneuver groups *)
(* in story / act / maneuver-group traversal order; a group is             *)
(*   [actors |-> sequence of entity names, events |-> sequence of events]  *)
(* with the events in maneuver / event traversal order; an event is        *)
(*   [name |-> set of the markers its name contains, action |-> sequence]  *)
(* and a trajectory action is [positions |-> ..., times |-> ...].          *)
(* Substring tests on names are membership tests on these sets.            *)
(***************************************************************************)
PlaceholderNames == {"$owner"}
EgoNames == {"ego"}

\* '$' in name
HasDollar(name) == name \in PlaceholderNames
\* 'ego' in name
HasEgo(name) == name \in EgoNames

(***************************************************************************)
(* FileQualityChecker._are_actors_defined                                  *)
(***************************************************************************)
RECURSIVE ListOfSet(_)
\* list(set(...)) where the number of occurrences matters: the elements of
\* the set, each once, in some order
ListOfSet(S) ==
    IF S = {} THEN <<>>
    ELSE LET x == CHOOSE x \in S : TRUE
         IN  <<x>> \o ListOfSet(S \ {x})

RECURSIVE UndefinedActors(_, _, _)
\* the first loop, flattened (line 370): for every maneuver group from g on,
\* the actors without '$' that are not entity names
UndefinedActors(scenario, entity_names, g) ==
    IF g > Len(scenario.maneuvergroups) THEN <<>>
    ELSE LET actors == {a \in Range(scenario.maneuvergroups[g].actors) : ~HasDollar(a)}
         IN  (IF Cardinality(actors \cap Range(entity_names)) # Cardinality(actors)
              THEN ListOfSet(actors \ Range(entity_names))
              ELSE <<>>)
             \o UndefinedActors(scenario, entity_names, g + 1)

RECURSIVE NonNumericSpeedEntities_FirstAction(_, _, _)
\* the second loop looking at the first init action of an entity only
NonNumericSpeedEntities_FirstAction(scenario, entity_names, i) ==
    IF i > Len(entity_names) THEN <<>>
    ELSE (IF ~DictHas(scenario.initactions, entity_names[i]) THEN <<>>
          ELSE LET initactions == DictGet(scenario.initactions, entity_names[i])
                   hits == SelectSeq(SubSeq(initactions, 1, 1),
                               LAMBDA a : a.type = "AbsoluteSpeedAction" /\ ~IsFloat(a.speed))
               IN  [k \in 1..Len(hits) |-> entity_names[i]])
         \o NonNumericSpeedEntities_FirstAction(scenario, entity_names, i + 1)

RECURSIVE NonNumericSpeedEntities(_, _, _)
\* the second loop: from the i-th entity on, the entity once for each of its
\* absolute-speed init actions whose speed is not a float
NonNumericSpeedEntities(scenario, entity_names, i) ==
    IF i > Len(entity_names) THEN <<>>
    ELSE (IF ~DictHas(scenario.initactions, entity_names[i]) THEN <<>>
          ELSE LET initactions == DictGet(scenario.initactions, entity_names[i])
                   hits == SelectSeq(initactions,
                               LAMBDA a : a.type = "AbsoluteSpeedAction" /\ ~IsFloat(a.speed))
               IN  [k \in 1..Len(hits) |-> entity_names[i]])
         \o NonNumericSpeedEntities(scenario, entity_names, i + 1)

\* _are_actors_defined returning the list it has appended to
_are_actors_defined_NoSet(scenario, entity_names) ==
    UndefinedActors(scenario, entity_names, 1)
        \o NonNumericSpeedEntities(scenario, entity_names, 1)

_are_actors_defined(scenario, entity_names) ==
    ListOfSet(Range(UndefinedActors(scenario, entity_names, 1)
                        \o NonNumericSpeedEntities(scenario, entity_names, 1)))

(***************************************************************************)
(* FileQualityChecker._get_added_and_removed_entities                      *)
(***************************************************************************)
\* 'Add_' in event.name
IsAddEvent(name) == "Add_" \in name

\* the branch of line 560: reached only when 'Add_' is not in event.name
IsRemoveEvent(name) == "Add_" \notin name /\ "Remove_" \in name

RECURSIVE EventActorLoop_NoElif(_, _, _, _)
\* the loop over the actors with 'if' in the place of the 'elif' of line 560
EventActorLoop_NoElif(actors, name, a, acc) ==
    IF a > Len(actors) THEN acc
    ELSE EventActorLoop_NoElif(actors, name, a + 1,
            IF HasDollar(actors[a]) THEN acc
            ELSE <<IF "Add_" \in name THEN Append(acc[1], actors[a]) ELSE acc[1],
                   IF "Remove_" \in name THEN Append(acc[2], actors[a]) ELSE acc[2]>>)

RECURSIVE EventActorLoop(_, _, _, _)
\* for actor in actors, lines 555-561; acc = <<added_entities, removed_entities>>
EventActorLoop(actors, name, a, acc) ==
    IF a > Len(actors) THEN acc
    ELSE EventActorLoop(actors, name, a + 1,
            IF HasDollar(actors[a]) THEN acc
            ELSE IF IsAddEvent(name) THEN <<Append(acc[1], actors[a]), acc[2]>>
            ELSE IF IsRemoveEvent(name) THEN <<acc[1], Append(acc[2], actors[a])>>
            ELSE acc)

RECURSIVE AddRemoveEventLoop(_, _, _, _)
\* the events of one maneuver group in maneuver / event order, lines 553-554
AddRemoveEventLoop(actors, events, e, acc) ==
    IF e > Len(events) THEN acc
    ELSE AddRemoveEventLoop(actors, events, e + 1,
            EventActorLoop(actors, events[e].name, 1, acc))

RECURSIVE AddRemoveGroupLoop(_, _, _)
\* lines 544-547; a maneuver group without actors contributes nothing
AddRemoveGroupLoop(maneuvergroups, g, acc) ==
    IF g > Len(maneuvergroups) THEN acc
    ELSE AddRemoveGroupLoop(maneuvergroups, g + 1,
            AddRemoveEventLoop(maneuvergroups[g].actors, maneuvergroups[g].events, 1, acc))

\* the two lists before line 563: one entry per event and actor
AddRemoveEvents(scenario) ==
    AddRemoveGroupLoop(scenario.maneuvergroups, 1, <<<<>>, <<>>>>)

\* the warnings logged at lines 548-551 and 563-566
AddRemoveWarnings(scenario) ==
    LET lists == AddRemoveEvents(scenario)
    IN  (IF \E g \in 1..Len(scenario.maneuvergroups) :
                Len(scenario.maneuvergroups[g].actors) > 1
         THEN {"Multiple actors in maneuver group"} ELSE {})
        \cup (IF Cardinality(Range(lists[1])) # Len(lists[1])
              THEN {"Duplicate Add_ events"} ELSE {})
        \cup (IF Cardinality(Range(lists[2])) # Len(lists[2])
              THEN {"Duplicate Remove_ events"} ELSE {})

\* _get_added_and_removed_entities returning the lists it has appended to
_get_added_and_removed_entities_NoSet(scenario) ==
    AddRemoveEvents(scenario)

\* returns <<added_entities, removed_entities>>, each a list(set(...))
_get_added_and_removed_entities(scenario) ==
    <<ListOfSet(Range(AddRemoveEvents(scenario)[1])),
      ListOfSet(Range(AddRemoveEvents(scenario)[2]))>>

(***************************************************************************)
(* FileQualityChecker._check_in_out_entities                               *)
(***************************************************************************)
_check_in_out_entities(init_positions, parked_entities, added_entities, removed_entities) ==
    IF Len(added_entities) + Len(init_positions)
           - Len(removed_entities) - Len(parked_entities) # 0
    THEN Range(added_entities \o DictKeys(init_positions) \o removed_entities)
             \ Range(added_entities \o DictKeys(init_positions))
    ELSE {}

(***************************************************************************)
(* FileQualityChecker.check_file_errors                                    *)
(***************************************************************************)
\* returns <<entities, file_errors>>, or raises with the intersection check
check_file_errors(scenario) ==
    LET entities == _get_entities(scenario)
        entity_names == DictKeys(entities)
        missing_entity_definitions == _are_actors_defined(scenario, entity_names)
        init == _get_initial_positions(scenario, entity_names)
        init_positions == init[1]
        parked_entities == init[2]
        identical_initposition_entities ==
            _get_identical_initposition_entities(init_positions)
        intersecting_entities == _get_intersecting_entities(scenario, init_positions)
        added_removed == _get_added_and_removed_entities(scenario)
        missing_in == _check_in_out_entities(init_positions, parked_entities,
                          added_removed[1], added_removed[2])
    IN  IF identical_initposition_entities.raised \/ intersecting_entities.raised
        THEN Raised
        ELSE Return(<<entities,
                      <<missing_entity_definitions,
                        identical_initposition_entities.value,
                        intersecting_entities.value,
                        missing_in>> >>)

(***************************************************************************)
(* Kinematics.  Times are whole seconds and coordinates whole metres; a    *)
(* derived value is NaN or a rational [n, d] with d > 0.  An angle is      *)
(* [mrad, quarter, theta], standing for                                    *)
(*      mrad / 1000 + quarter * pi / 2 + theta * arctan(4 / 3)             *)
(* radians, which is exact for steps along an axis or along a 3-4-5        *)
(* direction.  Trajectories are drawn from steps of these directions and   *)
(* from strictly increasing times.                                         *)
(***************************************************************************)
\* Config: thresholds, in tenths of m/s^2 and in microradians
ACCELERATION_ERROR_THRESHOLD == 196
ACCELERATION_WARNING_THRESHOLD == 98
SWIMANGLE_ERROR_THRESHOLD == 200000
SWIMANGLE_WARNING_THRESHOLD == 100000

\* bounds of pi / 2 and of arctan(4 / 3), in microradians
HalfPiLow == 1570796
HalfPiHigh == 1570797
ThetaLow == 927295
ThetaHigh == 927296

NaN == [nan |-> TRUE]
Rat(n, d) == [n |-> n, d |-> d]
Angle(mrad, quarter, theta) == [mrad |-> mrad, quarter |-> quarter, theta |-> theta]

Abs(v) == IF v < 0 THEN -v ELSE v

RECURSIVE SqrtBetween(_, _, _)
\* the largest r in lo..hi with r * r <= n, by bisection
SqrtBetween(n, lo, hi) ==
    IF lo = hi THEN lo
    ELSE LET mid == (lo + hi + 1) \div 2
         IN  IF mid * mid <= n THEN SqrtBetween(n, mid, hi)
             ELSE SqrtBetween(n, lo, mid - 1)

\* np.sqrt of a perfect square (below 2^30)
Sqrt(n) == SqrtBetween(n, 0, Min(n, 32768))
IsSquare(n) == \E r \in 0..n : r * r = n

\* np.arctan2(dy, dx) for a step along an axis or a 3-4-5 direction
ArcTan2(dy, dx) ==
    IF dy = 0 THEN (IF dx < 0 THEN Angle(0, 2, 0) ELSE Angle(0, 0, 0))
    ELSE IF dx = 0 THEN (IF dy > 0 THEN Angle(0, 1, 0) ELSE Angle(0, -1, 0))
    ELSE IF 3 * Abs(dy) = 4 * Abs(dx)
    THEN (IF dx > 0 THEN (IF dy > 0 THEN Angle(0, 0, 1) ELSE Angle(0, 0, -1))
          ELSE (IF dy > 0 THEN Angle(0, 2, -1) ELSE Angle(0, -2, 1)))
    ELSE (IF dx > 0 THEN (IF dy > 0 THEN Angle(0, 1, -1) ELSE Angle(0, -1, 1))
          ELSE (IF dy > 0 THEN Angle(0, 1, 1) ELSE Angle(0, -1, -1)))

SupportedStep(dy, dx) ==
    dy = 0 \/ dx = 0 \/ 3 * Abs(dy) = 4 * Abs(dx) \/ 4 * Abs(dy) = 3 * Abs(dx)

AngleLow(a) ==
    1000 * a.mrad
    + (IF a.quarter >= 0 THEN a.quarter * HalfPiLow ELSE a.quarter * HalfPiHigh)
    + (IF a.theta >= 0 THEN a.theta * ThetaLow ELSE a.theta * ThetaHigh)
AngleHigh(a) ==
    1000 * a.mrad
    + (IF a.quarter >= 0 THEN a.quarter * HalfPiHigh ELSE a.quarter * HalfPiLow)
    + (IF a.theta >= 0 THEN a.theta * ThetaHigh ELSE a.theta * ThetaLow)

\* the arctan2 result left as it is
Mod2Pi_Identity(a) == a

\* Series.mod(2 * np.pi) of an arctan2 result: a negative angle gains a turn
Mod2Pi(a) == IF AngleHigh(a) < 0 THEN Angle(a.mrad, a.quarter + 4, a.theta) ELSE a

AngleMinus(a, b) == Angle(a.mrad - b.mrad, a.quarter - b.quarter, a.theta - b.theta)

\* np.abs(v) > threshold; a comparison with NaN is False
RatExceeds(v, threshold) == v # NaN /\ 10 * Abs(v.n) > threshold * v.d
AngleExceeds(a, threshold) == a # NaN /\ (AngleLow(a) > threshold \/ AngleHigh(a) < -threshold)

RatMinus(a, b) == IF a = NaN \/ b = NaN THEN NaN ELSE Rat(a.n * b.d - b.n * a.d, a.d * b.d)
\* a change taken for the rate of change
RatDivInt_NoDivision(a, k) == a

RatDivInt(a, k) == IF a = NaN THEN NaN ELSE Rat(a.n, a.d * k)

\* a series assigned to a column of n rows: the rows it lacks are NaN
Column(series, n) == [i \in 1..n |-> IF i <= Len(series) THEN series[i] ELSE NaN]

(***************************************************************************)
(* FileQualityChecker._build_dynamic_data_df                               *)
(***************************************************************************)
\* a column of another length than the time column is a ValueError
_build_dynamic_data_df(positions, times) ==
    IF Len(positions) # Len(times) THEN Raised
    ELSE Return([time |-> times,
                 x |-> [i \in 1..Len(positions) |-> positions[i].x],
                 y |-> [i \in 1..Len(positions) |-> positions[i].y],
                 h |-> [i \in 1..Len(positions) |-> positions[i].h]])

(***************************************************************************)
(* FileQualityChecker._calculate_acceleration_swimangle                    *)
(***************************************************************************)
\* _calculate_acceleration_swimangle with a missing movement angle read as 0
_calculate_acceleration_swimangle_ZeroAngle(df) ==
    LET n == Len(df.time)
        t_change == [i \in 1..(n - 1) |-> df.time[i + 1] - df.time[i]]
        x_change == [i \in 1..(n - 1) |-> df.x[i + 1] - df.x[i]]
        y_change == [i \in 1..(n - 1) |-> df.y[i + 1] - df.y[i]]
        xy_change == [i \in 1..(n - 1) |->
                         Sqrt(x_change[i] * x_change[i] + y_change[i] * y_change[i])]
        speed == Column([i \in 1..(n - 1) |-> Rat(xy_change[i], t_change[i])], n)
        speed_change == [i \in 1..(n - 1) |-> RatMinus(speed[i + 1], speed[i])]
        acceleration == Column([i \in 1..(n - 1) |->
                                   RatDivInt(speed_change[i], t_change[i])], n)
        movement_angle == Column([i \in 1..(n - 1) |->
                                     Mod2Pi(ArcTan2(y_change[i], x_change[i]))], n)
        swimangle == [i \in 1..n |-> IF movement_angle[i] = NaN THEN df.h[i]
                                     ELSE AngleMinus(df.h[i], movement_angle[i])]
    IN  [time |-> df.time, x |-> df.x, y |-> df.y, h |-> df.h,
         speed |-> speed, acceleration |-> acceleration,
         movement_angle |-> movement_angle, swimangle |-> swimangle]

_calculate_acceleration_swimangle(df) ==
    LET n == Len(df.time)
        t_change == [i \in 1..(n - 1) |-> df.time[i + 1] - df.time[i]]
        x_change == [i \in 1..(n - 1) |-> df.x[i + 1] - df.x[i]]
        y_change == [i \in 1..(n - 1) |-> df.y[i + 1] - df.y[i]]
        xy_change == [i \in 1..(n - 1) |->
                         Sqrt(x_change[i] * x_change[i] + y_change[i] * y_change[i])]
        speed == Column([i \in 1..(n - 1) |-> Rat(xy_change[i], t_change[i])], n)
        speed_change == [i \in 1..(n - 1) |-> RatMinus(speed[i + 1], speed[i])]
        acceleration == Column([i \in 1..(n - 1) |->
                                   RatDivInt(speed_change[i], t_change[i])], n)
        movement_angle == Column([i \in 1..(n - 1) |->
                                     Mod2Pi(ArcTan2(y_change[i], x_change[i]))], n)
        swimangle == [i \in 1..n |-> IF movement_angle[i] = NaN THEN NaN
                                     ELSE AngleMinus(df.h[i], movement_angle[i])]
    IN  [time |-> df.time, x |-> df.x, y |-> df.y, h |-> df.h,
         speed |-> speed, acceleration |-> acceleration,
         movement_angle |-> movement_angle, swimangle |-> swimangle]

(***************************************************************************)
(* FileQualityChecker._get_dynamic_data                                    *)
(***************************************************************************)
RECURSIVE TrajectoryEvents_KeepAll(_, _, _, _)
\* the events of one maneuver group, every trajectory kept as an entry of
\* its own
TrajectoryEvents_KeepAll(actor, events, i, dynamic_data) ==
    IF i > Len(events) THEN dynamic_data
    ELSE TrajectoryEvents_KeepAll(actor, events, i + 1,
            IF "Trajectory_event_" \in events[i].name /\ Len(events[i].action) > 0
            THEN Append(dynamic_data,
                     <<actor, <<events[i].action[Len(events[i].action)].positions,
                                events[i].action[Len(events[i].action)].times>> >>)
            ELSE dynamic_data)

RECURSIVE TrajectoryEvents(_, _, _, _)
\* the events of one maneuver group: every action of an event named
\* 'Trajectory_event_' overwrites dynamic_data[actor]
TrajectoryEvents(actor, events, i, dynamic_data) ==
    IF i > Len(events) THEN dynamic_data
    ELSE TrajectoryEvents(actor, events, i + 1,
            IF "Trajectory_event_" \in events[i].name /\ Len(events[i].action) > 0
            THEN DictSet(dynamic_data, actor,
                     <<events[i].action[Len(events[i].action)].positions,
                       events[i].action[Len(events[i].action)].times>>)
            ELSE dynamic_data)

RECURSIVE TrajectoryEvents_EveryActor(_, _, _, _)
\* the trajectory events of one maneuver group given to each of its actors
TrajectoryEvents_EveryActor(actors, events, a, dynamic_data) ==
    IF a > Len(actors) THEN dynamic_data
    ELSE TrajectoryEvents_EveryActor(actors, events, a + 1,
            TrajectoryEvents(actors[a], events, 1, dynamic_data))

RECURSIVE DynamicDataLoop_AllActors(_, _, _)
\* the loop over the maneuver groups with the trajectory events given to
\* every actor of the group, a group without actors being passed over
DynamicDataLoop_AllActors(maneuvergroups, g, dynamic_data) ==
    IF g > Len(maneuvergroups) THEN Return(dynamic_data)
    ELSE DynamicDataLoop_AllActors(maneuvergroups, g + 1,
            TrajectoryEvents_EveryActor(maneuvergroups[g].actors,
                maneuvergroups[g].events, 1, dynamic_data))

RECURSIVE DynamicDataLoop(_, _, _)
\* actors[0] of a maneuver group without actors is an IndexError
DynamicDataLoop(maneuvergroups, g, dynamic_data) ==
    IF g > Len(maneuvergroups) THEN Return(dynamic_data)
    ELSE IF Len(maneuvergroups[g].actors) = 0 THEN Raised
    ELSE DynamicDataLoop(maneuvergroups, g + 1,
            TrajectoryEvents(maneuvergroups[g].actors[1],
                maneuvergroups[g].events, 1, dynamic_data))

_get_dynamic_data(scenario) == DynamicDataLoop(scenario.maneuvergroups, 1, <<>>)

(***************************************************************************)
(* FileQualityChecker.check_dynamic_errors                                 *)
(***************************************************************************)
AnyRatExceeds(series, threshold) ==
    \E i \in 1..Len(series) : RatExceeds(series[i], threshold)
AnyAngleExceeds(series, threshold) ==
    \E i \in 1..Len(series) : AngleExceeds(series[i], threshold)

\* the body of the loop with 'if' in the place of 'elif'
ClassifyEntity_NoElif(entity_name, df, acc) ==
    <<IF AnyRatExceeds(df.acceleration, ACCELERATION_ERROR_THRESHOLD)
      THEN Append(acc[1], entity_name) ELSE acc[1],
      IF AnyRatExceeds(df.acceleration, ACCELERATION_WARNING_THRESHOLD)
      THEN Append(acc[2], entity_name) ELSE acc[2],
      IF AnyAngleExceeds(df.swimangle, SWIMANGLE_ERROR_THRESHOLD)
      THEN Append(acc[3], entity_name) ELSE acc[3],
      IF AnyAngleExceeds(df.swimangle, SWIMANGLE_WARNING_THRESHOLD)
      THEN Append(acc[4], entity_name) ELSE acc[4]>>

\* the body of the loop with a branch for ego that leaves the warning
\* thresholds out
ClassifyEntity_EgoErrorsOnly(entity_name, df, acc) ==
    LET acceleration_errors ==
            IF AnyRatExceeds(df.acceleration, ACCELERATION_ERROR_THRESHOLD)
            THEN Append(acc[1], entity_name) ELSE acc[1]
        acceleration_warnings ==
            IF ~AnyRatExceeds(df.acceleration, ACCELERATION_ERROR_THRESHOLD)
               /\ AnyRatExceeds(df.acceleration, ACCELERATION_WARNING_THRESHOLD)
            THEN Append(acc[2], entity_name) ELSE acc[2]
        swimangle_errors ==
            IF AnyAngleExceeds(df.swimangle, SWIMANGLE_ERROR_THRESHOLD)
            THEN Append(acc[3], entity_name) ELSE acc[3]
        swimangle_warnings ==
            IF ~AnyAngleExceeds(df.swimangle, SWIMANGLE_ERROR_THRESHOLD)
               /\ AnyAngleExceeds(df.swimangle, SWIMANGLE_WARNING_THRESHOLD)
            THEN Append(acc[4], entity_name) ELSE acc[4]
    IN  IF HasEgo(entity_name)
        THEN <<acceleration_errors, acc[2], swimangle_errors, acc[4]>>
        ELSE <<acceleration_errors, acceleration_warnings,
               swimangle_errors, swimangle_warnings>>

\* the body of the loop for one entity; acc is the tuple of the four
\* lists.  Both branches of the 'ego' test are kept as the source has them.
ClassifyEntity(entity_name, df, acc) ==
    LET acceleration_errors ==
            IF AnyRatExceeds(df.acceleration, ACCELERATION_ERROR_THRESHOLD)
            THEN Append(acc[1], entity_name) ELSE acc[1]
        acceleration_warnings ==
            IF ~AnyRatExceeds(df.acceleration, ACCELERATION_ERROR_THRESHOLD)
               /\ AnyRatExceeds(df.acceleration, ACCELERATION_WARNING_THRESHOLD)
            THEN Append(acc[2], entity_name) ELSE acc[2]
        swimangle_errors ==
            IF AnyAngleExceeds(df.swimangle, SWIMANGLE_ERROR_THRESHOLD)
            THEN Append(acc[3], entity_name) ELSE acc[3]
        swimangle_warnings ==
            IF ~AnyAngleExceeds(df.swimangle, SWIMANGLE_ERROR_THRESHOLD)
               /\ AnyAngleExceeds(df.swimangle, SWIMANGLE_WARNING_THRESHOLD)
            THEN Append(acc[4], entity_name) ELSE acc[4]
    IN  IF HasEgo(entity_name)
        THEN <<acceleration_errors, acceleration_warnings,
               swimangle_errors, swimangle_warnings>>
        ELSE <<acceleration_errors, acceleration_warnings,
               swimangle_errors, swimangle_warnings>>

RECURSIVE DynamicErrorsLoop(_, _, _)
DynamicErrorsLoop(dynamic_data, i, acc) ==
    IF i > Len(dynamic_data) THEN Return(acc)
    ELSE LET df == _build_dynamic_data_df(dynamic_data[i][2][1], dynamic_data[i][2][2])
         IN  IF df.raised THEN Raised
             ELSE DynamicErrorsLoop(dynamic_data, i + 1,
                     ClassifyEntity(dynamic_data[i][1],
                         _calculate_acceleration_swimangle(df.value), acc))

check_dynamic_errors(scenario) ==
    LET dynamic_data == _get_dynamic_data(scenario)
    IN  IF dynamic_data.raised THEN Raised
        ELSE IF Len(dynamic_data.value) = 0 THEN Return(<<<<>>, <<>>, <<>>, <<>>>>)
        ELSE DynamicErrorsLoop(dynamic_data.value, 1, <<<<>>, <<>>, <<>>, <<>>>>)

(***************************************************************************)
(* Parameter preprocessing.  Text is a sequence of characters.             *)
(***************************************************************************)
RECURSIVE StrReplace(_, _, _)
\* str.replace(old, new): the non-overlapping occurrences, left to right
StrReplace(content, old, new) ==
    IF Len(content) < Len(old) \/ Len(old) = 0 THEN content
    ELSE IF SubSeq(content, 1, Len(old)) = old
    THEN new \o StrReplace(SubSeq(content, Len(old) + 1, Len(content)), old, new)
    ELSE <<content[1]>> \o StrReplace(Tail(content), old, new)

RECURSIVE ParameterLoop(_, _, _)
\* file.parameter_declarations: every ParameterDeclaration element of the
\* file in document order, [name, value, in_storyboard]
ParameterLoop(declarations, i, parameters) ==
    IF i > Len(declarations) THEN parameters
    ELSE ParameterLoop(declarations, i + 1,
            IF declarations[i].in_storyboard THEN parameters
            ELSE DictSet(parameters, declarations[i].name, declarations[i].value))

_load_parameter_declarations_outside_storyboard(file) ==
    ParameterLoop(file.parameter_declarations, 1, <<>>)

RECURSIVE ReplaceLoop(_, _, _)
ReplaceLoop(content, parameters, i) ==
    IF i > Len(parameters) THEN content
    ELSE ReplaceLoop(StrReplace(content, <<"$">> \o parameters[i][1], parameters[i][2]),
                     parameters, i + 1)

_replace_parameters_in_content(content, parameters) ==
    ReplaceLoop(content, parameters, 1)

(***************************************************************************)
(* Header access                                                           *)
(***************************************************************************)
\* int(revMajor): ValueError unless the text is a decimal number
ParseInt(text) ==
    CASE text = "0" -> Return(0)
      [] text = "1" -> Return(1)
      [] text = "2" -> Return(2)
      [] OTHER -> Raised

Pad2(n) == IF n < 10 THEN "0" \o ToString(n) ELSE ToString(n)
\* datetime.fromisoformat(date).strftime("%d.%m.%Y")
FormatDate(date) == Pad2(date.day) \o "." \o Pad2(date.month) \o "." \o ToString(date.year)

(***************************************************************************)
(* Inputs: scenario models and files                                       *)
(***************************************************************************)
MaxScenarioObjects == 2    \* scenario objects of a file of the pipeline
MaxManeuverGroups == 1     \* maneuver groups of a file of the pipeline
MaxFiles == 2              \* files of a batch
MaxAccountEntities == 3    \* entities of the accounting check
MaxDeclared == 2           \* declared entities of the definition check
MaxActorGroups == 2        \* maneuver groups of the definition check
MaxSamples == 4            \* samples of a trajectory of the kinematic check
MaxEvents == 3             \* events of a maneuver group of the add/remove scan
MaxSteps == 3              \* steps of a trajectory of the kinematic derivation
MaxContent == 4            \* characters of the raw text of the preprocessing
MaxTrajectoryEvents == 2   \* events of a maneuver group of the trajectory scan

SeqsUpTo(S, n) == UNION {[1..k -> S] : k \in 0..n}

\* entity objects as the loader builds them: a vehicle has a type and a
\* bounding box, a pedestrian a bounding box only, a catalog reference neither
EntityObjects ==
    { [vehicle_type |-> [name |-> "car"], boundingbox |-> [length |-> 4, width |-> 2]],
      [vehicle_type |-> NoAttr, boundingbox |-> [length |-> 1, width |-> 1]],
      [vehicle_type |-> NoAttr, boundingbox |-> NoAttr] }

\* the entity objects of the files of the pipeline
PipelineEntityObjects == {o \in EntityObjects : (o.vehicle_type = NoAttr) = (o.boundingbox = NoAttr)}

ScenarioObject(name, entityobject) ==
    [name |-> name, vehicle_type |-> entityobject.vehicle_type,
     boundingbox |-> entityobject.boundingbox]

PipelineObjects == {ScenarioObject(n, o) : n \in {"ego", "A"}, o \in PipelineEntityObjects}

\* the init actions of one entity; <<>> stands for an entity without any
PipelineInitActions ==
    { <<>>,
      <<TeleportAction(WorldPosition(0, 0)), AbsoluteSpeedAction(PyFloat(0))>>,
      <<TeleportAction(WorldPosition(1, 0)), AbsoluteSpeedAction(PyStr("$v"))>>,
      <<TeleportAction(LanePosition)>> }

InitActionsDict(ego_actions, a_actions) ==
    (IF ego_actions = <<>> THEN <<>> ELSE << <<"ego", ego_actions>> >>)
    \o (IF a_actions = <<>> THEN <<>> ELSE << <<"A", a_actions>> >>)

\* three samples along the x axis at times 0, 1, 2 with a constant heading
Trajectory(step1, step2, mrad) ==
    [positions |-> << [x |-> 0, y |-> 0, h |-> Angle(mrad, 0, 0)],
                      [x |-> step1, y |-> 0, h |-> Angle(mrad, 0, 0)],
                      [x |-> step1 + step2, y |-> 0, h |-> Angle(mrad, 0, 0)] >>,
     times |-> <<0, 1, 2>>]

\* a clean one, one with a warning and one with an error in both variables
PipelineTrajectories ==
    {Trajectory(c[1], c[2], c[3]) : c \in {<<10, 10, 0>>, <<0, 10, 150>>, <<0, 30, 300>>}}

PipelineEvents ==
    { << [name |-> {"Add_"}, action |-> <<>>] >>,
      << [name |-> {"Remove_"}, action |-> <<>>] >> }
    \cup { << [name |-> {"Trajectory_event_"}, action |-> <<t>>] >> : t \in PipelineTrajectories }

PipelineManeuverGroups ==
    { [actors |-> a, events |-> e] :
        a \in {<<>>, <<"ego">>, <<"A", "ghost", "$owner">>}, e \in PipelineEvents }

\* the scenario models of the files of the pipeline
Scenario(scenario_objects, ego_actions, a_actions, maneuvergroups) ==
    [author |-> "ika", scenario_objects |-> scenario_objects,
     initactions |-> InitActionsDict(ego_actions, a_actions),
     maneuvergroups |-> maneuvergroups]

\* the schema directory
SchemaDir == {"OpenSCENARIO_1-0.xsd"}

\* a file, by what the collaborators answer about it:
\*   markup        the markup parser accepts it
\*   revMajor, revMinor   the version attributes of the header (None: absent)
\*   schema_valid  the schema oracle's answer
\*   write_ok      the scratch copy can be written
\*   loader        "scenario", "none" or "raise": what the model loader does
File(path, markup, revMajor, revMinor, schema_valid, write_ok, loader, scenario, date) ==
    [path |-> path, markup |-> markup, revMajor |-> revMajor, revMinor |-> revMinor,
     schema_valid |-> schema_valid, write_ok |-> write_ok, loader |-> loader,
     scenario |-> scenario, date |-> date,
     parameter_declarations |->
        << [name |-> <<"a">>, value |-> <<"1">>, in_storyboard |-> FALSE],
           [name |-> <<"b">>, value |-> <<"2">>, in_storyboard |-> TRUE] >>,
     content |-> <<"x", "$", "a", "$", "b">>]

NoScenario == [author |-> "", scenario_objects |-> <<>>, initactions |-> <<>>,
               maneuvergroups |-> <<>>]

Dates == {None, [year |-> 2024, month |-> 3, day |-> 9]}

\* the files of the pipeline: an attribute that no stage reads, because an
\* earlier gate stops the pipeline, has one fixed value
GateFiles(path) ==
    { File(path, FALSE, PyStr("1"), PyStr("0"), FALSE, TRUE, "raise", NoScenario, None) }
    \cup { File(path, TRUE, v[1], v[2], valid, TRUE, "raise", NoScenario, None) :
             v \in { <<None, None>>, <<PyStr("x"), PyStr("0")>>, <<PyStr("2"), PyStr("0")>>,
                     <<PyStr("1"), PyStr("1")>>, <<PyStr("0"), PyStr("9")>> },
             valid \in BOOLEAN }
    \cup { File(path, TRUE, PyStr("1"), PyStr("0"), FALSE, TRUE, "raise", NoScenario, None) }
    \cup { File(path, TRUE, PyStr("1"), PyStr("0"), TRUE, FALSE, "scenario", NoScenario, None) }
    \cup { File(path, TRUE, PyStr("1"), PyStr("0"), TRUE, TRUE, l, NoScenario, None) :
             l \in {"raise", "none"} }

\* a file that passes the three gates
GoodFile(path, scenario, date) ==
    File(path, TRUE, PyStr("1"), PyStr("0"), TRUE, TRUE, "scenario", scenario, date)

(***************************************************************************)
(* State                                                                   *)
(***************************************************************************)
VARIABLES
    files,                \* the .xosc files of the directory, in glob order
    aggregated,           \* the option --aggregated
    cur,                  \* position of the loop over the files
    pc,                   \* position in quality_check_multiple / __init__
    self,                 \* the FileQualityChecker under construction
    locals,               \* load_openscenario: temp_file and the outcome of the try
    temp_files,           \* the scratch files that exist
    stages,               \* history: the stages attempted for the current file
    aggregated_checkers,  \* the checkers collected by the batch
    information_summary,  \* the rows of the aggregated report
    arg,                  \* argument of a function applied on its own
    ret                   \* its result

vars == <<files, aggregated, cur, pc, self, locals, temp_files, stages,
          aggregated_checkers, information_summary, arg, ret>>

\* NewChecker with the schema flag starting out true
NewChecker_SchemaValid(scenario_path) ==
    [file_path |-> scenario_path, xml_loadable |-> FALSE, xsd_valid |-> TRUE,
     version |-> None, author |-> None, date |-> None, scenario |-> None,
     road_user_counts |-> <<>>, file_errors |-> <<<<>>, <<>>, <<>>, {}>>,
     dynamic_errors |-> None]

\* __init__, lines 37-48
NewChecker(scenario_path) ==
    [file_path |-> scenario_path, xml_loadable |-> FALSE, xsd_valid |-> FALSE,
     version |-> None, author |-> None, date |-> None, scenario |-> None,
     road_user_counts |-> <<>>, file_errors |-> <<<<>>, <<>>, <<>>, {}>>,
     dynamic_errors |-> None]

(***************************************************************************)
(* FileQualityChecker.is_xml_loadable, is_xsd_valid                        *)
(***************************************************************************)
is_xml_loadable(file) == file.markup

\* is_xsd_valid that drops the version of a file it has no schema for
is_xsd_valid_NoVersion(f) ==
    IF f.revMajor = None \/ f.revMinor = None THEN Raised
    ELSE LET xsd_version == f.revMajor.v \o "-" \o f.revMinor.v
             major == ParseInt(f.revMajor.v)
             schema_file == "OpenSCENARIO_" \o xsd_version \o ".xsd"
         IN  IF major.raised THEN Raised
             ELSE IF ~(major.value < 2) THEN Return(<<FALSE, None>>)
             ELSE IF schema_file \notin SchemaDir THEN Return(<<FALSE, None>>)
             ELSE Return(<<f.schema_valid, PyStr(xsd_version)>>)

\* returns <<is_valid, xsd_version>>; a header without revMajor is a
\* KeyError, a revMajor that is no number a ValueError
is_xsd_valid(file) ==
    IF file.revMajor = None \/ file.revMinor = None THEN Raised
    ELSE LET xsd_version == file.revMajor.v \o "-" \o file.revMinor.v
             major == ParseInt(file.revMajor.v)
             schema_file == "OpenSCENARIO_" \o xsd_version \o ".xsd"
         IN  IF major.raised THEN Raised
             ELSE IF ~(major.value < 2) THEN Return(<<FALSE, PyStr(xsd_version)>>)
             ELSE IF schema_file \notin SchemaDir THEN Return(<<FALSE, PyStr(xsd_version)>>)
             ELSE Return(<<file.schema_valid, PyStr(xsd_version)>>)

(***************************************************************************)
(* FileQualityChecker.to_summary_row                                       *)
(***************************************************************************)
\* sum(len(items) for items in self.file_errors)
FileErrorCount(file_errors) ==
    Len(file_errors[1]) + Len(file_errors[2])
        + Len(file_errors[3]) + Cardinality(file_errors[4])

\* sum(len(items) for items in (self.dynamic_errors or ([], [], [], [])))
DynamicErrorCount(dynamic_errors) ==
    IF dynamic_errors = None THEN 0
    ELSE Len(dynamic_errors[1]) + Len(dynamic_errors[2])
             + Len(dynamic_errors[3]) + Len(dynamic_errors[4])

\* to_summary_row that counts the kinematic errors only
to_summary_row_OneCount(checker) ==
    IF ~checker.xml_loadable
    THEN <<checker.file_path, FALSE, FALSE, PyStr("-"), PyStr("-")>>
    ELSE IF ~checker.xsd_valid
    THEN <<checker.file_path, TRUE, FALSE, PyStr("-"), PyStr("-")>>
    ELSE IF checker.scenario = None
    THEN <<checker.file_path, TRUE, TRUE, PyStr("-"), PyStr("-")>>
    ELSE <<checker.file_path, TRUE, TRUE,
           PyInt(DynamicErrorCount(checker.dynamic_errors)),
           PyInt(DynamicErrorCount(checker.dynamic_errors))>>

to_summary_row(checker) ==
    IF ~checker.xml_loadable
    THEN <<checker.file_path, FALSE, FALSE, PyStr("-"), PyStr("-")>>
    ELSE IF ~checker.xsd_valid
    THEN <<checker.file_path, TRUE, FALSE, PyStr("-"), PyStr("-")>>
    ELSE IF checker.scenario = None
    THEN <<checker.file_path, TRUE, TRUE, PyStr("-"), PyStr("-")>>
    ELSE <<checker.file_path, TRUE, TRUE,
           PyInt(FileErrorCount(checker.file_errors)),
           PyInt(DynamicErrorCount(checker.dynamic_errors))>>

(***************************************************************************)
(* Counter(entities.values()) and the 'total' entry, lines 79-80           *)
(***************************************************************************)
RECURSIVE CounterOf(_, _, _)
CounterOf(values, i, counter) ==
    IF i > Len(values) THEN counter
    ELSE CounterOf(values, i + 1,
            DictSet(counter, values[i],
                PyInt(IF DictHas(counter, values[i])
                      THEN DictGet(counter, values[i]).v + 1 ELSE 1)))

RoadUserCounts(entities) ==
    DictSet(CounterOf(DictValues(entities), 1, <<>>),
            PyStr("total"), PyStr(ToString(Len(entities))))

(***************************************************************************)
(* quality_check_multiple and FileQualityChecker.__init__, step by step.   *)
(* An exception leaves __init__, quality_check_single and                  *)
(* quality_check_multiple, none of which catches it: pc = "raised".        *)
(***************************************************************************)
file == files[cur]

Harness == <<arg, ret>>

\* quality_check_single: FileQualityChecker(file_path, ...), lines 37-51
Construct ==
    /\ pc = "loop"
    /\ cur <= Len(files)
    /\ self' = NewChecker(file.path)
    /\ stages' = <<>>
    /\ pc' = "is_xml_loadable"
    /\ UNCHANGED <<files, aggregated, cur, locals, temp_files,
                   aggregated_checkers, information_summary, Harness>>

\* MarkupGate without the return of line 56
MarkupGate_NoReturn ==
    /\ pc = "is_xml_loadable"
    /\ stages' = Append(stages, "markup")
    /\ self' = [self EXCEPT !.xml_loadable = is_xml_loadable(file)]
    /\ pc' = "is_xsd_valid"
    /\ UNCHANGED <<files, aggregated, cur, locals, temp_files,
                   aggregated_checkers, information_summary, Harness>>

\* lines 54-58
MarkupGate ==
    /\ pc = "is_xml_loadable"
    /\ stages' = Append(stages, "markup")
    /\ self' = [self EXCEPT !.xml_loadable = is_xml_loadable(file)]
    /\ pc' = IF ~is_xml_loadable(file) THEN "constructed" ELSE "is_xsd_valid"
    /\ UNCHANGED <<files, aggregated, cur, locals, temp_files,
                   aggregated_checkers, information_summary, Harness>>

\* lines 61-65
SchemaGate ==
    /\ pc = "is_xsd_valid"
    /\ stages' = Append(stages, "schema")
    /\ LET r == is_xsd_valid(file)
       IN  IF r.raised
           THEN /\ pc' = "raised"
                /\ self' = self
           ELSE /\ self' = [self EXCEPT !.xsd_valid = r.value[1], !.version = r.value[2]]
                /\ pc' = IF ~r.value[1] THEN "constructed" ELSE "_process_xosc_file"
    /\ UNCHANGED <<files, aggregated, cur, locals, temp_files,
                   aggregated_checkers, information_summary, Harness>>

\* load_openscenario, line 168: _process_xosc_file, lines 182-191.  The
\* scratch file is created with delete=False; a failing write leaves the
\* with block, and load_openscenario, before the try is entered.
ProcessXoscFile ==
    /\ pc = "_process_xosc_file"
    /\ stages' = Append(stages, "model")
    /\ LET parameters == _load_parameter_declarations_outside_storyboard(file)
           updated_content == _replace_parameters_in_content(file.content, parameters)
           temp == [name |-> cur, content |-> IF file.write_ok THEN updated_content ELSE <<>>]
       IN  /\ temp_files' = temp_files \cup {temp}
           /\ IF file.write_ok
              THEN /\ locals' = [temp_file |-> temp, outcome |-> None]
                   /\ pc' = "ParseOpenScenario"
              ELSE /\ locals' = locals
                   /\ pc' = "raised"
    /\ UNCHANGED <<files, aggregated, cur, self,
                   aggregated_checkers, information_summary, Harness>>

\* lines 169-171: the try block
ParseOpenScenario ==
    /\ pc = "ParseOpenScenario"
    /\ locals' = [locals EXCEPT !.outcome =
                     CASE file.loader = "scenario" -> Return(file.scenario)
                       [] file.loader = "none" -> Return(None)
                       [] OTHER -> Raised]
    /\ pc' = "_clean_up_temp_file"
    /\ UNCHANGED <<files, aggregated, cur, self, temp_files, stages,
                   aggregated_checkers, information_summary, Harness>>

\* lines 172-173 and 193-202: the finally block, then the return or the
\* exception of the try block; lines 68-71
CleanUpTempFile ==
    /\ pc = "_clean_up_temp_file"
    /\ temp_files' = temp_files \ {locals.temp_file}
    /\ IF locals.outcome.raised
       THEN /\ pc' = "raised"
            /\ self' = self
       ELSE /\ self' = [self EXCEPT !.scenario = locals.outcome.value]
            /\ pc' = IF locals.outcome.value = None THEN "constructed"
                     ELSE "check_file_errors"
    /\ locals' = None
    /\ UNCHANGED <<files, aggregated, cur, stages,
                   aggregated_checkers, information_summary, Harness>>

\* lines 74-80: the header, the structural checks and the entity counts
CheckFileErrors ==
    /\ pc = "check_file_errors"
    /\ stages' = Append(stages, "checkers")
    /\ LET r == check_file_errors(self.scenario)
       IN  IF r.raised
           THEN /\ pc' = "raised"
                /\ self' = self
           ELSE /\ self' = [self EXCEPT
                       !.author = PyStr(self.scenario.author),
                       !.date = IF file.date = None THEN None
                                ELSE PyStr(FormatDate(file.date)),
                       !.file_errors = r.value[2],
                       !.road_user_counts = RoadUserCounts(r.value[1])]
                /\ pc' = "check_dynamic_errors"
    /\ UNCHANGED <<files, aggregated, cur, locals, temp_files,
                   aggregated_checkers, information_summary, Harness>>

\* line 83
CheckDynamicErrors ==
    /\ pc = "check_dynamic_errors"
    /\ LET r == check_dynamic_errors(self.scenario)
       IN  IF r.raised
           THEN /\ pc' = "raised"
                /\ self' = self
           ELSE /\ self' = [self EXCEPT !.dynamic_errors = r.value]
                /\ pc' = "constructed"
    /\ UNCHANGED <<files, aggregated, cur, locals, temp_files, stages,
                   aggregated_checkers, information_summary, Harness>>

\* quality_check_multiple, lines 785-793: the checker is returned and kept
CollectChecker ==
    /\ pc = "constructed"
    /\ aggregated_checkers' = IF aggregated THEN Append(aggregated_checkers, self)
                              ELSE aggregated_checkers
    /\ cur' = cur + 1
    /\ pc' = "loop"
    /\ UNCHANGED <<files, aggregated, self, locals, temp_files, stages,
                   information_summary, Harness>>

\* lines 795-797, after the loop
Summarize ==
    /\ pc = "loop"
    /\ cur > Len(files)
    /\ information_summary' =
          IF aggregated
          THEN [i \in 1..Len(aggregated_checkers) |-> to_summary_row(aggregated_checkers[i])]
          ELSE information_summary
    /\ pc' = "done"
    /\ UNCHANGED <<files, aggregated, cur, self, locals, temp_files, stages,
                   aggregated_checkers, Harness>>

Next ==
    \/ Construct
    \/ MarkupGate
    \/ SchemaGate
    \/ ProcessXoscFile
    \/ ParseOpenScenario
    \/ CleanUpTempFile
    \/ CheckFileErrors
    \/ CheckDynamicErrors
    \/ CollectChecker
    \/ Summarize

\* the state at the head of quality_check_multiple's loop, line 784
Start(directory, aggregated_option) ==
    /\ files = directory
    /\ aggregated = aggregated_option
    /\ cur = 1
    /\ pc = "loop"
    /\ self = None
    /\ locals = None
    /\ temp_files = {}
    /\ stages = <<>>
    /\ aggregated_checkers = (IF aggregated_option THEN <<>> ELSE None)
    /\ information_summary = <<>>
    /\ arg = None
    /\ ret = None

\* the init actions and the scenario objects of a file whose other parts vary
StandardInitActions ==
    <<TeleportAction(WorldPosition(0, 0)), AbsoluteSpeedAction(PyFloat(0))>>

StandardObjects ==
    << ScenarioObject("ego", CHOOSE o \in EntityObjects : o.vehicle_type # NoAttr),
       ScenarioObject("A", CHOOSE o \in EntityObjects : o.vehicle_type # NoAttr) >>

\* a directory with one file, of any kind: a file that stops at a gate or
\* raises there, or a file that passes the gates and whose scenario model
\* varies in two of its three parts (scenario objects, init actions,
\* maneuver groups) at a time
Init ==
    \/ \E f \in GateFiles("f.xosc") : Start(<<f>>, TRUE)
    \/ \E d \in Dates : Start(<<GoodFile("f.xosc", NoScenario, d)>>, TRUE)
    \/ \E objs \in SeqsUpTo(PipelineObjects, MaxScenarioObjects),
          ego_actions \in PipelineInitActions, a_actions \in PipelineInitActions :
          Start(<<GoodFile("f.xosc", Scenario(objs, ego_actions, a_actions, <<>>), None)>>, TRUE)
    \/ \E ego_actions \in PipelineInitActions, a_actions \in PipelineInitActions,
          mgs \in SeqsUpTo(PipelineManeuverGroups, MaxManeuverGroups) :
          Start(<<GoodFile("f.xosc", Scenario(StandardObjects, ego_actions, a_actions, mgs), None)>>, TRUE)
    \/ \E objs \in SeqsUpTo(PipelineObjects, MaxScenarioObjects),
          mgs \in SeqsUpTo(PipelineManeuverGroups, MaxManeuverGroups) :
          Start(<<GoodFile("f.xosc", Scenario(objs, StandardInitActions, <<>>, mgs), None)>>, TRUE)

Spec == Init /\ [][Next]_vars

\* a directory with up to MaxFiles files: the files that stop at a gate or
\* raise there, and files with one of three scenario models (an empty one,
\* one with two overlapping vehicles and a trajectory, one with a maneuver
\* group without actors)
BatchScenarios ==
    { NoScenario,
      Scenario(StandardObjects, StandardInitActions,
               <<TeleportAction(WorldPosition(1, 0)), AbsoluteSpeedAction(PyStr("$v"))>>,
               << [actors |-> <<"ego">>,
                   events |-> << [name |-> {"Trajectory_event_"},
                                  action |-> <<Trajectory(0, 30, 300)>>] >>] >>),
      Scenario(<<>>, <<>>, <<>>, << [actors |-> <<>>, events |-> <<>>] >>) }

FilePath(i) == <<"1.xosc", "2.xosc", "3.xosc", "4.xosc">>[i]

BatchFiles(path) ==
    GateFiles(path) \cup {GoodFile(path, s, None) : s \in BatchScenarios}

InitBatch ==
    \E n \in 1..MaxFiles, a \in BOOLEAN :
        \E directory \in [1..n -> BatchFiles("")] :
            Start([i \in 1..n |-> [directory[i] EXCEPT !.path = FilePath(i)]], a)

SpecBatch == InitBatch /\ [][Next]_vars

(***************************************************************************)
(* The structural checks applied on their own                              *)
(***************************************************************************)
EntityName(i) == <<"A", "B", "C", "D", "E", "F">>[i]

\* the pipeline is not running
Idle ==
    /\ files = <<>>
    /\ aggregated = FALSE
    /\ cur = 1
    /\ pc = "call"
    /\ self = None
    /\ locals = None
    /\ temp_files = {}
    /\ stages = <<>>
    /\ aggregated_checkers = None
    /\ information_summary = <<>>
    /\ ret = None

Pipeline == <<files, aggregated, cur, self, locals, temp_files, stages,
              aggregated_checkers, information_summary>>

\* init-position maps: entities A, B, ... in this order, each at one of two
\* world positions or at the sentinel
InitPositionValues == {<<PyFloat(0), PyFloat(0)>>, <<PyFloat(1), PyFloat(0)>>, Sentinel}

InitPositionMaps ==
    UNION { { [i \in 1..n |-> <<EntityName(i), v[i]>>] : v \in [1..n -> InitPositionValues] }
            : n \in 0..MaxInitEntities }

InitIdentical == Idle /\ arg \in InitPositionMaps

ApplyIdentical ==
    /\ pc = "call"
    /\ ret' = _get_identical_initposition_entities(arg)
    /\ pc' = "returned"
    /\ UNCHANGED <<Pipeline, arg>>

SpecIdentical == InitIdentical /\ [][ApplyIdentical]_vars

\* scenarios of up to MaxObjects entities A, B, ...: each with or without a
\* bounding box, teleported to one of four world positions, to a lane
\* position, or not at all
IntersectionPlacements ==
    { <<TeleportAction(WorldPosition(p[1], p[2]))>> :
          p \in {<<0, 0>>, <<2, 0>>, <<3, 0>>, <<2, 2>>} }
    \cup { <<TeleportAction(LanePosition)>>, <<>> }

IntersectionBoxes == { [length |-> 2, width |-> 2], [length |-> 4, width |-> 2], NoAttr }

RECURSIVE InitActionsOf(_, _)
InitActionsOf(placements, i) ==
    IF i > Len(placements) THEN <<>>
    ELSE (IF placements[i] = <<>> THEN <<>> ELSE << <<EntityName(i), placements[i]>> >>)
         \o InitActionsOf(placements, i + 1)

IntersectionScenario(boxes, placements) ==
    [author |-> "",
     scenario_objects |->
        [i \in 1..Len(boxes) |-> [name |-> EntityName(i),
                                  vehicle_type |-> [name |-> "car"],
                                  boundingbox |-> boxes[i]]],
     initactions |-> InitActionsOf(placements, 1),
     maneuvergroups |-> <<>>]

\* check_file_errors, lines 228-232: the init positions the check is given
InitPositionsOf(scenario) ==
    _get_initial_positions(scenario, DictKeys(_get_entities(scenario)))[1]

InitIntersecting ==
    /\ Idle
    /\ \E n \in 0..MaxObjects :
          \E boxes \in [1..n -> IntersectionBoxes],
             placements \in [1..n -> IntersectionPlacements] :
             arg = [scenario |-> IntersectionScenario(boxes, placements),
                    init_positions |->
                        InitPositionsOf(IntersectionScenario(boxes, placements))]

ApplyIntersecting ==
    /\ pc = "call"
    /\ ret' = _get_intersecting_entities(arg.scenario, arg.init_positions)
    /\ pc' = "returned"
    /\ UNCHANGED <<Pipeline, arg>>

SpecIntersecting == InitIntersecting /\ [][ApplyIntersecting]_vars

\* the accounting check on its own: up to MaxAccountEntities entities A, B,
\* ..., each initialized or not, parked or not, added or not, removed or not
AccountNames == {EntityName(i) : i \in 1..MaxAccountEntities}

NamesInOrder(S) ==
    SelectSeq([i \in 1..MaxAccountEntities |-> EntityName(i)], LAMBDA n : n \in S)

InitInOut ==
    /\ Idle
    /\ \E initialized \in SUBSET AccountNames, parked \in SUBSET AccountNames,
          added \in SUBSET AccountNames, removed \in SUBSET AccountNames :
          arg = [init_positions |->
                    [i \in 1..Cardinality(initialized) |->
                        <<NamesInOrder(initialized)[i], <<PyFloat(0), PyFloat(0)>>>>],
                 parked_entities |-> NamesInOrder(parked),
                 added_entities |-> NamesInOrder(added),
                 removed_entities |-> NamesInOrder(removed)]

ApplyInOut ==
    /\ pc = "call"
    /\ ret' = Return(_check_in_out_entities(arg.init_positions, arg.parked_entities,
                                            arg.added_entities, arg.removed_entities))
    /\ pc' = "returned"
    /\ UNCHANGED <<Pipeline, arg>>

SpecInOut == InitInOut /\ [][ApplyInOut]_vars

\* the definition check on its own: up to MaxDeclared declared entities,
\* init actions for ego and A, and up to MaxActorGroups maneuver groups
ActorNames == {"ego", "A", "B"}

DeclaredNames ==
    {names \in SeqsUpTo(ActorNames, MaxDeclared) :
        \A i, j \in 1..Len(names) : i # j => names[i] # names[j]}

ActorInitActions ==
    { <<>>,
      <<TeleportAction(WorldPosition(0, 0)), AbsoluteSpeedAction(PyFloat(0))>>,
      <<AbsoluteSpeedAction(PyStr("$v"))>>,
      <<AbsoluteSpeedAction(PyFloat(5)), AbsoluteSpeedAction(PyStr("$v"))>>,
      <<AbsoluteSpeedAction(PyStr("$v")), AbsoluteSpeedAction(PyStr("$w"))>> }

ActorGroups ==
    { [actors |-> a, events |-> <<>>] :
        a \in {<<>>, <<"ego">>, <<"ghost">>, <<"A", "ghost", "$owner">>} }

InitActors ==
    /\ Idle
    /\ \E names \in DeclaredNames,
          ego_actions \in ActorInitActions, a_actions \in ActorInitActions,
          mgs \in SeqsUpTo(ActorGroups, MaxActorGroups) :
          arg = [scenario |-> Scenario(<<>>, ego_actions, a_actions, mgs),
                 entity_names |-> names]

ApplyActors ==
    /\ pc = "call"
    /\ ret' = Return(_are_actors_defined(arg.scenario, arg.entity_names))
    /\ pc' = "returned"
    /\ UNCHANGED <<Pipeline, arg>>

SpecActors == InitActors /\ [][ApplyActors]_vars

\* the kinematic check on its own: a maneuver group of ego or A with one
\* trajectory of up to MaxSamples samples, followed or not by a maneuver
\* group of A with a trajectory that is in error in both variables.  A
\* trajectory starts at the origin, advances by steps along an axis with a
\* constant time step, and keeps one heading.  With a time step of 1 s the
\* steps give accelerations well off the thresholds, with a time step of
\* 5 s they give multiples of 9.8 m/s^2.
TrajectoryFamilies ==
    { [dt |-> 1, steps |-> {<<0, 0>>, <<5, 0>>, <<30, 0>>, <<0, 20>>}],
      [dt |-> 5, steps |-> {<<0, 0>>, <<245, 0>>, <<490, 0>>}] }
Headings == {0, 100, 150, 200, 300}

RECURSIVE Advance(_, _, _)
\* the coordinate c (1: x, 2: y) after the first k steps
Advance(steps, k, c) ==
    IF k = 0 THEN 0 ELSE steps[k][c] + Advance(steps, k - 1, c)

SteppedTrajectory(steps, dt, mrad) ==
    [positions |-> [i \in 1..(Len(steps) + 1) |->
                       [x |-> Advance(steps, i - 1, 1), y |-> Advance(steps, i - 1, 2),
                        h |-> Angle(mrad, 0, 0)]],
     times |-> [i \in 1..(Len(steps) + 1) |-> (i - 1) * dt]]

EmptyTrajectory == [positions |-> <<>>, times |-> <<>>]

TrajectoryGroup(actor, trajectory) ==
    [actors |-> <<actor>>,
     events |-> << [name |-> {"Trajectory_event_"}, action |-> <<trajectory>>] >>]

InitDynamic ==
    /\ Idle
    /\ \E actor \in {"ego", "A"},
          second \in SeqsUpTo({TrajectoryGroup("A", Trajectory(0, 30, 300))}, 1) :
          \/ arg = Scenario(<<>>, <<>>, <<>>,
                            <<TrajectoryGroup(actor, EmptyTrajectory)>> \o second)
          \/ \E family \in TrajectoryFamilies, mrad \in Headings :
                \E steps \in SeqsUpTo(family.steps, MaxSamples - 1) :
                    arg = Scenario(<<>>, <<>>, <<>>,
                              <<TrajectoryGroup(actor,
                                    SteppedTrajectory(steps, family.dt, mrad))>>
                                  \o second)

ApplyDynamic ==
    /\ pc = "call"
    /\ ret' = check_dynamic_errors(arg)
    /\ pc' = "returned"
    /\ UNCHANGED <<Pipeline, arg>>

SpecDynamic == InitDynamic /\ [][ApplyDynamic]_vars

\* the add/remove scan on its own: a maneuver group with up to MaxEvents
\* events, each named as an add event, a remove event, both, or a trajectory
\* event, followed or not by a second maneuver group
AddRemoveEventNames == {{"Add_"}, {"Remove_"}, {"Add_", "Remove_"}, {"Trajectory_event_"}}

AddRemoveActors == {<<>>, <<"A">>, <<"A", "A">>, <<"A", "B", "$owner">>}

NamedEvents(names) == [i \in 1..Len(names) |-> [name |-> names[i], action |-> <<>>]]

SecondGroups ==
    { [actors |-> <<"A">>, events |-> NamedEvents(<<{"Add_"}>>)],
      [actors |-> <<"B">>, events |-> NamedEvents(<<{"Remove_"}>>)],
      [actors |-> <<"A", "B", "$owner">>, events |-> NamedEvents(<<{"Add_"}, {"Remove_"}>>)] }

InitAddRemove ==
    /\ Idle
    /\ \E actors \in AddRemoveActors,
          names \in SeqsUpTo(AddRemoveEventNames, MaxEvents),
          second \in SeqsUpTo(SecondGroups, 1) :
          arg = Scenario(<<>>, <<>>, <<>>,
                    <<[actors |-> actors, events |-> NamedEvents(names)]>> \o second)

\* the call returns the two lists; log holds the warnings it has logged
ApplyAddRemove ==
    /\ pc = "call"
    /\ ret' = [raised |-> FALSE,
               value |-> _get_added_and_removed_entities(arg),
               log |-> AddRemoveWarnings(arg)]
    /\ pc' = "returned"
    /\ UNCHANGED <<Pipeline, arg>>

SpecAddRemove == InitAddRemove /\ [][ApplyAddRemove]_vars

\* the kinematic derivation on its own: one maneuver group of ego or A with
\* one trajectory of up to MaxSteps steps <<dx, dy, dt>>, in any direction
\* and with differing time steps, and one heading kept all along
KinematicSteps ==
    { <<3, 4, 1>>, <<3, 4, 2>>, <<0, -5, 1>>, <<3, -4, 1>>, <<-4, 0, 1>>, <<0, 0, 1>> }

\* 0, -pi/2, 3pi/2, arctan(4/3) and -arctan(4/3)
KinematicHeadings ==
    {Angle(0, 0, 0), Angle(0, -1, 0), Angle(0, 3, 0), Angle(0, 0, 1), Angle(0, 0, -1)}

HeadedTrajectory(steps, h) ==
    [positions |-> [i \in 1..(Len(steps) + 1) |->
                       [x |-> Advance(steps, i - 1, 1), y |-> Advance(steps, i - 1, 2),
                        h |-> h]],
     times |-> [i \in 1..(Len(steps) + 1) |-> Advance(steps, i - 1, 3)]]

InitKinematics ==
    /\ Idle
    /\ \E actor \in {"ego", "A"}, h \in KinematicHeadings,
          steps \in SeqsUpTo(KinematicSteps, MaxSteps) :
          arg = Scenario(<<>>, <<>>, <<>>,
                    <<TrajectoryGroup(actor, HeadedTrajectory(steps, h))>>)

ApplyKinematics ==
    /\ pc = "call"
    /\ ret' = check_dynamic_errors(arg)
    /\ pc' = "returned"
    /\ UNCHANGED <<Pipeline, arg>>

SpecKinematics == InitKinematics /\ [][ApplyKinematics]_vars

\* the parameter preprocessing on its own: a raw text of up to MaxContent
\* characters ('$', the name characters a and b, and a separator) and the
\* parameter declarations of the file in document order
ContentCharacters == {"$", "a", "b", "-"}

Declaration(name, value, in_storyboard) ==
    [name |-> name, value |-> value, in_storyboard |-> in_storyboard]

DeclarationLists ==
    { <<>>,
      <<Declaration(<<"b">>, <<"2">>, TRUE)>>,
      <<Declaration(<<"a">>, <<"1">>, FALSE), Declaration(<<"b">>, <<"2">>, TRUE)>>,
      <<Declaration(<<"a">>, <<"1">>, FALSE), Declaration(<<"a", "b">>, <<"2">>, FALSE)>>,
      <<Declaration(<<"a", "b">>, <<"2">>, FALSE), Declaration(<<"a">>, <<"1">>, FALSE)>>,
      <<Declaration(<<"a">>, <<"1">>, FALSE), Declaration(<<"a", "b">>, <<"2">>, TRUE)>> }

InitParameters ==
    /\ Idle
    /\ \E content \in SeqsUpTo(ContentCharacters, MaxContent),
          declarations \in DeclarationLists :
          arg = [content |-> content, parameter_declarations |-> declarations]

\* _process_xosc_file, lines 182-184
ApplyParameters ==
    /\ pc = "call"
    /\ ret' = Return(_replace_parameters_in_content(arg.content,
                         _load_parameter_declarations_outside_storyboard(arg)))
    /\ pc' = "returned"
    /\ UNCHANGED <<Pipeline, arg>>

SpecParameters == InitParameters /\ [][ApplyParameters]_vars

\* the scans of the storyboard on their own: a maneuver group with up to
\* MaxTrajectoryEvents events, each a trajectory event with a clean
\* trajectory, one with a warning or one with an error in both variables, or
\* an add event, followed or not by a second maneuver group
ScannedEvents ==
    { [name |-> {"Trajectory_event_"}, action |-> <<t>>] : t \in PipelineTrajectories }
    \cup { [name |-> {"Add_"}, action |-> <<>>] }

ScannedActors == {<<>>, <<"ego">>, <<"ego", "A">>, <<"A", "ego">>}

CleanTrajectory == Trajectory(10, 10, 0)

SecondScannedGroups ==
    { TrajectoryGroup("ego", CleanTrajectory),
      TrajectoryGroup("ego", Trajectory(0, 30, 300)),
      TrajectoryGroup("A", Trajectory(0, 10, 150)),
      [actors |-> <<>>, events |-> <<>>] }

InitScans ==
    /\ Idle
    /\ \E actors \in ScannedActors,
          events \in SeqsUpTo(ScannedEvents, MaxTrajectoryEvents),
          second \in SeqsUpTo(SecondScannedGroups, 1) :
          arg = Scenario(<<>>, <<>>, <<>>,
                    <<[actors |-> actors, events |-> events]>> \o second)

\* __init__, lines 74-83: the add/remove scan of check_file_errors and the
\* kinematic check, on one storyboard
ApplyScans ==
    /\ pc = "call"
    /\ ret' = [added_removed |-> _get_added_and_removed_entities(arg),
               dynamic_errors |-> check_dynamic_errors(arg)]
    /\ pc' = "returned"
    /\ UNCHANGED <<Pipeline, arg>>

SpecScans == InitScans /\ [][ApplyScans]_vars

(***************************************************************************)
(* Claims about the pipeline                                               *)
(***************************************************************************)
Running == pc \notin {"loop", "done", "call", "returned"}

\* a file's gates, from what the collaborators answer about it
MarkupPasses(f) == f.markup
SchemaPasses(f) == MarkupPasses(f) /\ ~is_xsd_valid(f).raised /\ is_xsd_valid(f).value[1]
ModelPasses(f) == SchemaPasses(f) /\ f.write_ok /\ f.loader = "scenario"

StageOrder == <<"markup", "schema", "model", "checkers">>

(***************************************************************************)
(* C1  The stages run in the order markup, schema, model, checkers, and a  *)
(* stage is attempted only after every earlier gate has passed.            *)
(***************************************************************************)
C1_StagesInOrderBehindGates ==
    Running =>
        /\ \E k \in 0..Len(StageOrder) : stages = SubSeq(StageOrder, 1, k)
        /\ "schema" \in Range(stages) => MarkupPasses(file)
        /\ "model" \in Range(stages) => SchemaPasses(file)
        /\ "checkers" \in Range(stages) => ModelPasses(file) /\ self.scenario # None

\* a file whose markup does not parse has been given up after the first stage
C1_Witness ==
    pc = "constructed" /\ ~MarkupPasses(file) /\ stages = <<"markup">>

(***************************************************************************)
(* C2  When a gate fails, every result field owned by a later stage is at  *)
(* its default.  As claimed: the default of the kinematic errors is four   *)
(* empty lists.  As amended: it is null.                                   *)
(***************************************************************************)
IsFourEmptyLists(v) == v # None /\ v = <<<<>>, <<>>, <<>>, <<>>>>

LaterFieldsAtDefault ==
    /\ ~self.xml_loadable => self.xsd_valid = FALSE /\ self.version = None
    /\ self.scenario = None
    /\ self.author = None
    /\ self.date = None
    /\ self.road_user_counts = <<>>
    /\ self.file_errors = <<<<>>, <<>>, <<>>, {}>>

GateFailed == pc = "constructed" /\ ~ModelPasses(file)

\* C2 as claimed: after a failed gate the later fields are at their defaults
\* and the kinematic errors are four empty lists
C2_DefaultsWithEmptyKinematicLists ==
    GateFailed => LaterFieldsAtDefault /\ IsFourEmptyLists(self.dynamic_errors)

\* C2 as amended: after a failed gate the later fields are at their defaults
\* and the kinematic errors field is null
C2_DefaultsWithNullKinematicErrors ==
    GateFailed => LaterFieldsAtDefault /\ self.dynamic_errors = None

C2_Witness ==
    GateFailed /\ ~self.xml_loadable /\ self.dynamic_errors = None

(***************************************************************************)
(* C3  A declared major version >= 2, or a version below 2 without a       *)
(* schema file, gives schema_ok = false without raising, with the version  *)
(* string recorded; schema_ok = true only when the schema file exists and  *)
(* the oracle reports the file valid.                                      *)
(***************************************************************************)
DeclaredMajor(f) ==
    CASE f.revMajor = PyStr("0") -> 0
      [] f.revMajor = PyStr("1") -> 1
      [] f.revMajor = PyStr("2") -> 2
      [] OTHER -> -1

SchemaFileOf(f) == "OpenSCENARIO_" \o f.revMajor.v \o "-" \o f.revMinor.v \o ".xsd"

NoKnownSchema(f) ==
    /\ DeclaredMajor(f) >= 0
    /\ DeclaredMajor(f) >= 2 \/ SchemaFileOf(f) \notin SchemaDir

C3_UnknownSchemaIsNotValid ==
    (Running /\ "schema" \in Range(stages)) =>
        /\ NoKnownSchema(file) =>
              /\ pc = "constructed"
              /\ stages = <<"markup", "schema">>
              /\ self.xsd_valid = FALSE
              /\ self.version = PyStr(file.revMajor.v \o "-" \o file.revMinor.v)
        /\ self.xsd_valid =>
              /\ SchemaFileOf(file) \in SchemaDir
              /\ file.schema_valid

C3_Witness ==
    /\ pc = "constructed"
    /\ DeclaredMajor(file) = 2
    /\ self.xsd_valid = FALSE
    /\ self.version = PyStr("2-0")

(***************************************************************************)
(* C4  When the model cannot be loaded after the markup and schema gates   *)
(* passed, the pipeline does not raise: the result has markup_ok = true,   *)
(* schema_ok = true, model = null and the later fields at their defaults.  *)
(***************************************************************************)
C4_UnloadableModelIsAResult ==
    (/\ Running
     /\ "model" \in Range(stages)
     /\ SchemaPasses(file) /\ file.write_ok /\ file.loader # "scenario"
     /\ pc \notin {"_process_xosc_file", "ParseOpenScenario", "_clean_up_temp_file"})
    => /\ pc = "constructed"
       /\ self.xml_loadable /\ self.xsd_valid
       /\ LaterFieldsAtDefault

(***************************************************************************)
(* C5  The scratch copy does not exist any more when the model-load stage  *)
(* is left, on every exit path.                                            *)
(***************************************************************************)
C5_NoScratchCopyOutsideLoad ==
    pc \notin {"ParseOpenScenario", "_clean_up_temp_file"} => temp_files = {}

(***************************************************************************)
(* C6  A fatal error raised while validating one file of a batch aborts    *)
(* that file only: every other file appears in the aggregated summary.     *)
(***************************************************************************)
C6_OtherFilesAreSummarized ==
    (aggregated /\ pc \in {"done", "raised"}) =>
        \A i \in 1..Len(files) :
            ~(pc = "raised" /\ i = cur) =>
                \E k \in 1..Len(information_summary) :
                    information_summary[k][1] = files[i].path

(***************************************************************************)
(* C7  to_summary_row gives (file_path, markup_ok, schema_ok, structural   *)
(* count, kinematic count); both counts are '-' exactly when a gate        *)
(* failed, and are the sums of the lengths of the four lists otherwise.    *)
(***************************************************************************)
SummaryRowIsRight(row, checker, f) ==
    /\ row[1] = checker.file_path
    /\ row[2] = checker.xml_loadable
    /\ row[3] = checker.xsd_valid
    /\ (row[4] = PyStr("-")) = ~ModelPasses(f)
    /\ (row[5] = PyStr("-")) = ~ModelPasses(f)
    /\ ModelPasses(f) =>
          /\ row[4] = PyInt(Len(checker.file_errors[1]) + Len(checker.file_errors[2])
                            + Len(checker.file_errors[3]) + Cardinality(checker.file_errors[4]))
          /\ row[5] = PyInt(Len(checker.dynamic_errors[1]) + Len(checker.dynamic_errors[2])
                            + Len(checker.dynamic_errors[3]) + Len(checker.dynamic_errors[4]))

C7_SummaryRow ==
    (aggregated /\ pc = "done") =>
        /\ Len(information_summary) = Len(files)
        /\ \A k \in 1..Len(files) :
              SummaryRowIsRight(information_summary[k], aggregated_checkers[k], files[k])

\* a row with findings of both kinds
C7_Witness ==
    /\ pc = "done"
    /\ Len(information_summary) = 1
    /\ information_summary[1][4].py = "int"
    /\ information_summary[1][4].v > 1
    /\ information_summary[1][5].v > 1

(***************************************************************************)
(* C8  For a file that passes the three gates, entity_counts['total'] is   *)
(* the number of declared entities (scenario objects), and the per-type    *)
(* counts sum to that number.                                              *)
(***************************************************************************)
RECURSIVE SumOfTypeCounts(_, _)
SumOfTypeCounts(road_user_counts, i) ==
    IF i > Len(road_user_counts) THEN 0
    ELSE (IF road_user_counts[i][1] = PyStr("total") THEN 0 ELSE road_user_counts[i][2].v)
         + SumOfTypeCounts(road_user_counts, i + 1)

C8_TotalIsNumberOfEntities ==
    pc \in {"check_dynamic_errors", "constructed"} /\ ModelPasses(file) =>
        /\ DictHas(self.road_user_counts, PyStr("total"))
        /\ DictGet(self.road_user_counts, PyStr("total"))
               = PyStr(ToString(Len(self.scenario.scenario_objects)))
        /\ SumOfTypeCounts(self.road_user_counts, 1) = Len(self.scenario.scenario_objects)

(***************************************************************************)
(* C9  Duplicate-position detection reports exactly one cluster per        *)
(* position shared by more than one entity, in first-seen order of the     *)
(* positions, and a cluster lists exactly the entities at its position, in *)
(* the order of the init map.                                              *)
(***************************************************************************)
EntitiesAt(init_positions, position) ==
    LET at == SelectSeq(init_positions, LAMBDA kv : kv[2] = position)
    IN  [i \in 1..Len(at) |-> at[i][1]]

RECURSIVE ClustersByPosition(_, _)
ClustersByPosition(init_positions, i) ==
    IF i > Len(init_positions) THEN <<>>
    ELSE (IF /\ \A j \in 1..(i - 1) : init_positions[j][2] # init_positions[i][2]
             /\ Len(EntitiesAt(init_positions, init_positions[i][2])) > 1
          THEN <<EntitiesAt(init_positions, init_positions[i][2])>>
          ELSE <<>>)
         \o ClustersByPosition(init_positions, i + 1)

C9_ClustersAreExact ==
    pc = "returned" => ret = Return(ClustersByPosition(arg, 1))

(***************************************************************************)
(* C10  Any two entities whose footprints have a non-empty intersection    *)
(* (touching and concentric footprints included) are reported as an        *)
(* intersecting pair.                                                      *)
(***************************************************************************)
HasFootprint(scenario, init_positions, name) ==
    /\ DictHas(init_positions, name)
    /\ DictGet(init_positions, name) # Sentinel
    /\ \E i \in 1..Len(scenario.scenario_objects) :
          /\ scenario.scenario_objects[i].name = name
          /\ scenario.scenario_objects[i].boundingbox # NoAttr

FootprintOf(scenario, init_positions, name) ==
    LET o == scenario.scenario_objects[
                 CHOOSE i \in 1..Len(scenario.scenario_objects) :
                     scenario.scenario_objects[i].name = name]
    IN  FootprintCoords(DictGet(init_positions, name),
                        o.boundingbox.length, o.boundingbox.width)

OverlappingPair(scenario, init_positions, a, b) ==
    /\ HasFootprint(scenario, init_positions, a)
    /\ HasFootprint(scenario, init_positions, b)
    /\ PolygonsIntersect(FootprintOf(scenario, init_positions, a),
                         FootprintOf(scenario, init_positions, b))

C10_EveryOverlapIsReported ==
    pc = "returned" =>
        \A i, j \in 1..Len(arg.init_positions) :
            (i < j /\ OverlappingPair(arg.scenario, arg.init_positions,
                                      arg.init_positions[i][1], arg.init_positions[j][1]))
            => /\ ~ret.raised
               /\ \E k \in 1..Len(ret.value) :
                     ret.value[k] = <<arg.init_positions[i][1], arg.init_positions[j][1]>>

(***************************************************************************)
(* C11  Two footprints with a non-empty intersection have their centres at *)
(* a distance of at most 2 x max_entity_radius, the largest half-diagonal  *)
(* of the footprints of the pass.                                          *)
(***************************************************************************)
C11_OverlapWithinPrefilterBound ==
    pc = "returned" =>
        \A i, j \in 1..Len(arg.init_positions) :
            OverlappingPair(arg.scenario, arg.init_positions,
                            arg.init_positions[i][1], arg.init_positions[j][1])
            => DistanceSq(DictValues(arg.init_positions), i, j)
                   <= _get_entities_bbox(arg.scenario, arg.init_positions)[2]

\* two footprints that touch at a corner, their centres exactly
\* 2 x max_entity_radius apart
C11_Witness ==
    /\ pc = "returned"
    /\ \E i, j \in 1..Len(arg.init_positions) :
          /\ i < j
          /\ OverlappingPair(arg.scenario, arg.init_positions,
                             arg.init_positions[i][1], arg.init_positions[j][1])
          /\ DistanceSq(DictValues(arg.init_positions), i, j)
                 = _get_entities_bbox(arg.scenario, arg.init_positions)[2]

(***************************************************************************)
(* C12  The unbalanced list is empty if and only if the balance            *)
(* |added| + |initialized| - |removed| - |parked| is zero.                 *)
(***************************************************************************)
Balance ==
    Len(arg.added_entities) + Len(arg.init_positions)
        - Len(arg.removed_entities) - Len(arg.parked_entities)

C12_EmptyExactlyWhenBalanced ==
    pc = "returned" => ((ret.value = {}) <=> (Balance = 0))

(***************************************************************************)
(* C13  The unbalanced list is (added + initialized + removed) minus       *)
(* (added + initialized) for every input: every removed entity that is     *)
(* neither initialized nor added is reported.                              *)
(***************************************************************************)
C13_RemovedButNeverInIsReported ==
    pc = "returned" =>
        ret.value = (Range(arg.added_entities) \cup Range(DictKeys(arg.init_positions))
                         \cup Range(arg.removed_entities))
                    \ (Range(arg.added_entities) \cup Range(DictKeys(arg.init_positions)))

(***************************************************************************)
(* C14  Every entity name referenced by a maneuver-group actor, an init    *)
(* action or an add/remove event is a declared entity or is on the         *)
(* missing-definitions list (unresolved placeholders aside).               *)
(***************************************************************************)
ReferencedNames(scenario) ==
    {a \in UNION {Range(scenario.maneuvergroups[g].actors) :
                     g \in 1..Len(scenario.maneuvergroups)} : ~HasDollar(a)}
    \cup Range(DictKeys(scenario.initactions))

DeclaredEntities(scenario) ==
    {scenario.scenario_objects[i].name : i \in 1..Len(scenario.scenario_objects)}

C14_NoReferenceSilentlyDropped ==
    pc = "check_dynamic_errors" =>
        \A name \in ReferencedNames(self.scenario) :
            \/ name \in DeclaredEntities(self.scenario)
            \/ name \in Range(self.file_errors[1])

(***************************************************************************)
(* C15  The missing-definitions list holds each undeclared maneuver-group  *)
(* actor exactly once, however many groups name it, no actor with the      *)
(* placeholder marker, and no declared entity without a non-numeric init   *)
(* speed.                                                                  *)
(***************************************************************************)
Occurrences(list, x) == Cardinality({k \in 1..Len(list) : list[k] = x})

ActorsOf(scenario) ==
    UNION {Range(scenario.maneuvergroups[g].actors) : g \in 1..Len(scenario.maneuvergroups)}

HasNonNumericSpeed(scenario, entity) ==
    /\ DictHas(scenario.initactions, entity)
    /\ \E i \in 1..Len(DictGet(scenario.initactions, entity)) :
          /\ DictGet(scenario.initactions, entity)[i].type = "AbsoluteSpeedAction"
          /\ ~IsFloat(DictGet(scenario.initactions, entity)[i].speed)

C15_UndeclaredActorsOnce ==
    pc = "returned" =>
        /\ \A a \in ActorsOf(arg.scenario) :
              /\ (~HasDollar(a) /\ a \notin Range(arg.entity_names))
                     => Occurrences(ret.value, a) = 1
              /\ HasDollar(a) => Occurrences(ret.value, a) = 0
        /\ \A e \in Range(arg.entity_names) :
              ~HasNonNumericSpeed(arg.scenario, e) => Occurrences(ret.value, e) = 0

\* an undeclared actor named by two maneuver groups, with placeholders around
C15_Witness ==
    /\ pc = "returned"
    /\ Len(arg.scenario.maneuvergroups) = 2
    /\ \A g \in 1..2 : arg.scenario.maneuvergroups[g].actors = <<"A", "ghost", "$owner">>
    /\ "A" \in Range(arg.entity_names)
    /\ ret.value = <<"ghost">>

(***************************************************************************)
(* C20  A declared entity is on the missing-definitions list whenever one  *)
(* of its init actions is an absolute-speed action with a non-numeric      *)
(* value, and never for that reason when all its speeds are numeric.       *)
(***************************************************************************)
C20_NonNumericSpeedIsFlagged ==
    pc = "returned" =>
        \A e \in Range(arg.entity_names) :
            (e \in Range(ret.value)) <=> HasNonNumericSpeed(arg.scenario, e)

\* the placeholder speed comes after a numeric one
C20_Witness ==
    /\ pc = "returned"
    /\ "ego" \in Range(arg.entity_names)
    /\ DictHas(arg.scenario.initactions, "ego")
    /\ DictGet(arg.scenario.initactions, "ego")
           = <<AbsoluteSpeedAction(PyFloat(5)), AbsoluteSpeedAction(PyStr("$v"))>>
    /\ "ego" \in Range(ret.value)

(***************************************************************************)
(* C16  Per entity and per variable: error if some sample is above the     *)
(* error threshold in absolute value, otherwise warning if some sample is  *)
(* above the warning threshold, otherwise clean.  No entity is on the      *)
(* error list and on the warning list of one variable.                     *)
(***************************************************************************)
\* the series derived from the trajectory kept for the k-th entity
DerivedSeries(scenario, k) ==
    LET data == _get_dynamic_data(scenario).value[k][2]
    IN  _calculate_acceleration_swimangle(_build_dynamic_data_df(data[1], data[2]).value)

SomeAccelerationAbove(df, tenths) ==
    \E i \in 1..Len(df.acceleration) :
        /\ df.acceleration[i] # NaN
        /\ 10 * Abs(df.acceleration[i].n) > tenths * df.acceleration[i].d

SomeSwimangleAbove(df, microrad) ==
    \E i \in 1..Len(df.swimangle) :
        /\ df.swimangle[i] # NaN
        /\ (AngleLow(df.swimangle[i]) > microrad \/ AngleHigh(df.swimangle[i]) < -microrad)

C16_ErrorBeforeWarning ==
    pc = "returned" =>
        /\ ~ret.raised
        /\ Range(ret.value[1]) \cap Range(ret.value[2]) = {}
        /\ Range(ret.value[3]) \cap Range(ret.value[4]) = {}
        /\ \A k \in 1..Len(_get_dynamic_data(arg).value) :
              LET entity == _get_dynamic_data(arg).value[k][1]
                  df == DerivedSeries(arg, k)
              IN  /\ (entity \in Range(ret.value[1]))
                         <=> SomeAccelerationAbove(df, ACCELERATION_ERROR_THRESHOLD)
                  /\ (entity \in Range(ret.value[2]))
                         <=> (/\ ~SomeAccelerationAbove(df, ACCELERATION_ERROR_THRESHOLD)
                              /\ SomeAccelerationAbove(df, ACCELERATION_WARNING_THRESHOLD))
                  /\ (entity \in Range(ret.value[3]))
                         <=> SomeSwimangleAbove(df, SWIMANGLE_ERROR_THRESHOLD)
                  /\ (entity \in Range(ret.value[4]))
                         <=> (/\ ~SomeSwimangleAbove(df, SWIMANGLE_ERROR_THRESHOLD)
                              /\ SomeSwimangleAbove(df, SWIMANGLE_WARNING_THRESHOLD))

\* acceleration samples [5, 25] m/s^2: an error and not a warning
C16_Witness ==
    /\ pc = "returned"
    /\ Len(_get_dynamic_data(arg).value) = 1
    /\ LET acceleration == DerivedSeries(arg, 1).acceleration
       IN  /\ Len(acceleration) = 4
           /\ acceleration[1] # NaN /\ acceleration[1].n = 5 * acceleration[1].d
           /\ acceleration[2] # NaN /\ acceleration[2].n = 25 * acceleration[2].d
    /\ ret.value[1] = <<"ego">>
    /\ ret.value[2] = <<>>

(***************************************************************************)
(* C17  A trajectory of 0 or 1 samples gives series without a valid value, *)
(* raises nothing, and its entity is on none of the four kinematic lists.  *)
(***************************************************************************)
NoValidValue(series) == \A i \in 1..Len(series) : series[i] = NaN

C17_ShortTrajectoryIsClean ==
    pc = "returned" =>
        /\ ~ret.raised
        /\ \A k \in 1..Len(_get_dynamic_data(arg).value) :
              Len(_get_dynamic_data(arg).value[k][2][1]) <= 1 =>
                  /\ NoValidValue(DerivedSeries(arg, k).speed)
                  /\ NoValidValue(DerivedSeries(arg, k).acceleration)
                  /\ NoValidValue(DerivedSeries(arg, k).swimangle)
                  /\ \A list \in 1..4 :
                        _get_dynamic_data(arg).value[k][1] \notin Range(ret.value[list])

\* one sample with a heading of 0.3 rad, next to an entity that is in error
C17_Witness ==
    /\ pc = "returned"
    /\ Len(arg.maneuvergroups) = 2
    /\ arg.maneuvergroups[1].actors = <<"ego">>
    /\ Len(arg.maneuvergroups[1].events[1].action[1].positions) = 1
    /\ arg.maneuvergroups[1].events[1].action[1].positions[1].h = Angle(300, 0, 0)
    /\ ret.value = <<<<"A">>, <<>>, <<"A">>, <<>>>>

(***************************************************************************)
(* C18  Every reported intersecting pair names two entities whose own      *)
(* footprints overlap, also when an entity with an init position is        *)
(* skipped for lack of a bounding box; the skipped entity causes no        *)
(* failure.                                                                *)
(***************************************************************************)
NoSentinel(init_positions) ==
    \A i \in 1..Len(init_positions) : init_positions[i][2] # Sentinel

C18_ReportedPairsOverlap ==
    (pc = "returned" /\ NoSentinel(arg.init_positions)) =>
        /\ ~ret.raised
        /\ \A k \in 1..Len(ret.value) :
              OverlappingPair(arg.scenario, arg.init_positions,
                              ret.value[k][1], ret.value[k][2])

(***************************************************************************)
(* C19  With at least two footprints and an entity at the sentinel         *)
(* position, the intersection check does not raise: the sentinel entity is *)
(* left out and the other entities are still tested.                       *)
(***************************************************************************)
C19_SentinelIsLeftOut ==
    (/\ pc = "returned"
     /\ ~NoSentinel(arg.init_positions)
     /\ Len(_get_entities_bbox(arg.scenario, arg.init_positions)[1]) > 1
     /\ \A i \in 1..Len(arg.scenario.scenario_objects) :
           arg.scenario.scenario_objects[i].boundingbox # NoAttr)
    => /\ ~ret.raised
       /\ \A k \in 1..Len(ret.value) :
             OverlappingPair(arg.scenario, arg.init_positions,
                             ret.value[k][1], ret.value[k][2])

(***************************************************************************)
(* C21  Every non-placeholder actor of the maneuver group that owns an     *)
(* event named 'Add_' (resp. 'Remove_') is in the added (resp. removed)    *)
(* collection; the collections hold no duplicates; duplicate add or remove *)
(* events for one entity are logged and do not make the scan fail.  As     *)
(* claimed: every event whose name contains 'Remove_' counts as a remove   *)
(* event.  As amended: only when its name does not contain 'Add_' as well. *)
(***************************************************************************)
\* the <<group, event, actor position>> triples whose event name satisfies
\* the marker test and whose actor is the entity
EventsFor(scenario, marker, without, entity) ==
    { t \in UNION { UNION { { <<g, e, a>> :
                                 a \in 1..Len(scenario.maneuvergroups[g].actors) } :
                             e \in 1..Len(scenario.maneuvergroups[g].events) } :
                     g \in 1..Len(scenario.maneuvergroups) } :
        /\ scenario.maneuvergroups[t[1]].actors[t[3]] = entity
        /\ marker \in scenario.maneuvergroups[t[1]].events[t[2]].name
        /\ scenario.maneuvergroups[t[1]].events[t[2]].name \cap without = {} }

NoDuplicates(list) == \A i, j \in 1..Len(list) : list[i] = list[j] => i = j

EntitiesOfActors(scenario) == {a \in ActorsOf(scenario) : ~HasDollar(a)}

AddRemoveCollectionsAreSound ==
    /\ ~ret.raised
    /\ NoDuplicates(ret.value[1])
    /\ NoDuplicates(ret.value[2])
    /\ \A entity \in EntitiesOfActors(arg) :
          /\ EventsFor(arg, "Add_", {}, entity) # {} => entity \in Range(ret.value[1])
          /\ Cardinality(EventsFor(arg, "Add_", {}, entity)) > 1
                 => "Duplicate Add_ events" \in ret.log

\* C21 as claimed: an event whose name contains 'Remove_' puts every
\* non-placeholder actor of its group in the removed collection
C21_EveryRemoveNamePutsActorsInRemoved ==
    pc = "returned" =>
        /\ AddRemoveCollectionsAreSound
        /\ \A entity \in EntitiesOfActors(arg) :
              EventsFor(arg, "Remove_", {}, entity) # {} => entity \in Range(ret.value[2])

\* C21 as amended: an event whose name contains 'Remove_' and not 'Add_'
\* puts every non-placeholder actor of its group in the removed collection;
\* two such events for one entity are logged
C21_RemoveOnlyNamePutsActorsInRemoved ==
    pc = "returned" =>
        /\ AddRemoveCollectionsAreSound
        /\ \A entity \in EntitiesOfActors(arg) :
              /\ EventsFor(arg, "Remove_", {"Add_"}, entity) # {}
                     => entity \in Range(ret.value[2])
              /\ Cardinality(EventsFor(arg, "Remove_", {"Add_"}, entity)) > 1
                     => "Duplicate Remove_ events" \in ret.log

\* a group of three actors, one a placeholder, with two add events and a
\* remove event: both entities once in each collection, the duplicate logged
C21_Witness ==
    /\ pc = "returned"
    /\ Len(arg.maneuvergroups) = 1
    /\ arg.maneuvergroups[1].actors = <<"A", "B", "$owner">>
    /\ [e \in 1..Len(arg.maneuvergroups[1].events) |-> arg.maneuvergroups[1].events[e].name]
           = <<{"Add_"}, {"Add_"}, {"Remove_"}>>
    /\ Range(ret.value[1]) = {"A", "B"} /\ Len(ret.value[1]) = 2
    /\ Range(ret.value[2]) = {"A", "B"} /\ Len(ret.value[2]) = 2
    /\ "Duplicate Add_ events" \in ret.log

(***************************************************************************)
(* C30  An event whose name contains both 'Add_' and 'Remove_' counts as   *)
(* an add event only: its actors are put in the added collection, and in   *)
(* the removed collection only when another event removes them.            *)
(***************************************************************************)
C30_AddAndRemoveNameIsAnAdd ==
    pc = "returned" =>
        \A entity \in EntitiesOfActors(arg) :
            /\ EventsFor(arg, "Add_", {}, entity) # {} => entity \in Range(ret.value[1])
            /\ EventsFor(arg, "Remove_", {"Add_"}, entity) = {}
                   => entity \notin Range(ret.value[2])

\* the only event of the scenario is named with both markers
C30_Witness ==
    /\ pc = "returned"
    /\ Len(arg.maneuvergroups) = 1
    /\ arg.maneuvergroups[1].actors = <<"A">>
    /\ Len(arg.maneuvergroups[1].events) = 1
    /\ arg.maneuvergroups[1].events[1].name = {"Add_", "Remove_"}
    /\ ret.value = <<<<"A">>, <<>>>>

(***************************************************************************)
(* C22  For n >= 2 samples, speed[i] is the distance of step i over its    *)
(* time step, for every step, and acceleration[i] is the change of speed   *)
(* from step i to step i + 1 over the time step of step i, for every step  *)
(* but the last; the rows after these hold no value.                       *)
(***************************************************************************)
\* the samples of the only trajectory of the scenario
Samples == arg.maneuvergroups[1].events[1].action[1]

StepSq(i) ==
    (Samples.positions[i + 1].x - Samples.positions[i].x)
        * (Samples.positions[i + 1].x - Samples.positions[i].x)
    + (Samples.positions[i + 1].y - Samples.positions[i].y)
        * (Samples.positions[i + 1].y - Samples.positions[i].y)

TimeStep(i) == Samples.times[i + 1] - Samples.times[i]

\* v is the non-negative rational whose square is sq / (dt * dt)
IsSpeed(v, sq, dt) ==
    v # NaN /\ v.d > 0 /\ v.n >= 0 /\ v.n * v.n * dt * dt = sq * v.d * v.d

\* a is (v1 - v0) / dt
IsRateOfChange(a, v0, v1, dt) ==
    a # NaN /\ a.d > 0
    /\ a.n * (v0.d * v1.d * dt) = (v1.n * v0.d - v0.n * v1.d) * a.d

\* the example of the specification: (0,0) -> (3,4) -> (6,8), 1 s a step
TwoEqualSteps ==
    /\ Samples.times = <<0, 1, 2>>
    /\ Samples.positions[2].x = 3 /\ Samples.positions[2].y = 4
    /\ Samples.positions[3].x = 6 /\ Samples.positions[3].y = 8

C22_FiniteDifferences ==
    (pc = "returned" /\ Len(Samples.times) >= 2) =>
        LET n == Len(Samples.times)
            df == DerivedSeries(arg, 1)
        IN  /\ ~ret.raised
            /\ Len(df.speed) = n /\ Len(df.acceleration) = n
            /\ \A i \in 1..(n - 1) : IsSpeed(df.speed[i], StepSq(i), TimeStep(i))
            /\ df.speed[n] = NaN
            /\ \A i \in 1..(n - 2) :
                  IsRateOfChange(df.acceleration[i], df.speed[i], df.speed[i + 1], TimeStep(i))
            /\ \A i \in (n - 1)..n : i >= 1 => df.acceleration[i] = NaN
            /\ TwoEqualSteps =>
                  /\ df.speed[1].n = 5 * df.speed[1].d
                  /\ df.speed[2].n = 5 * df.speed[2].d
                  /\ df.acceleration[1].n = 0

\* the example has been derived
C22_Witness ==
    /\ pc = "returned"
    /\ TwoEqualSteps
    /\ ~ret.raised

(***************************************************************************)
(* C23  The movement angle of every step lies in [0, 2 pi).  The heading   *)
(* deviation is the heading minus the movement angle, not normalized: the  *)
(* same positions with every heading a full turn lower give heading        *)
(* deviations 2 pi lower, and an entity that drives exactly along a        *)
(* heading given as a negative angle has a deviation of -2 pi and is       *)
(* classified as a heading error.                                          *)
(***************************************************************************)
\* the scenario with every heading of its trajectory a full turn lower
FullTurnLower(scenario) ==
    LET t == scenario.maneuvergroups[1].events[1].action[1]
        lower == [t EXCEPT !.positions =
                     [i \in 1..Len(t.positions) |->
                         [t.positions[i] EXCEPT !.h = AngleMinus(@, Angle(0, 4, 0))]]]
    IN  [scenario EXCEPT !.maneuvergroups[1].events[1].action = <<lower>>]

\* the step <<dx, dy>> points in the direction h, for the negative
\* headings -pi/2 and -arctan(4/3)
PointsAlong(h, dx, dy) ==
    \/ h = Angle(0, -1, 0) /\ dx = 0 /\ dy < 0
    \/ h = Angle(0, 0, -1) /\ dx > 0 /\ dy < 0 /\ 3 * (-dy) = 4 * dx

DrivesAlongNegativeHeading ==
    /\ Len(Samples.times) >= 2
    /\ \A i \in 1..(Len(Samples.times) - 1) :
          PointsAlong(Samples.positions[i].h,
                      Samples.positions[i + 1].x - Samples.positions[i].x,
                      Samples.positions[i + 1].y - Samples.positions[i].y)

C23_HeadingDeviationIsNotNormalized ==
    pc = "returned" =>
        LET n == Len(Samples.times)
            df == DerivedSeries(arg, 1)
            lower == DerivedSeries(FullTurnLower(arg), 1)
        IN  /\ ~ret.raised
            /\ \A i \in 1..(n - 1) :
                  /\ df.movement_angle[i] # NaN
                  /\ AngleLow(df.movement_angle[i]) >= 0
                  /\ AngleHigh(df.movement_angle[i]) < 4 * HalfPiLow
                  /\ lower.movement_angle[i] = df.movement_angle[i]
                  /\ AngleMinus(lower.swimangle[i], df.swimangle[i]) = Angle(0, -4, 0)
            /\ DrivesAlongNegativeHeading =>
                  /\ \A i \in 1..(n - 1) : df.swimangle[i] = Angle(0, -4, 0)
                  /\ ret.value[3] = <<arg.maneuvergroups[1].actors[1]>>
                  /\ ret.value[4] = <<>>

\* two steps along -y with the heading given as -pi/2: a heading error
C23_Witness ==
    /\ pc = "returned"
    /\ DrivesAlongNegativeHeading
    /\ Len(Samples.times) = 3
    /\ Samples.positions[1].h = Angle(0, -1, 0)
    /\ ret.value[3] = <<"ego">>

(***************************************************************************)
(* C24  The kinematic classification does not depend on the 'ego' marker:  *)
(* with ego and A exchanged as actors and the trajectory samples left as   *)
(* they are, the four kinematic lists are the same with ego and A          *)
(* exchanged.                                                              *)
(***************************************************************************)
SwapName(name) == IF name = "ego" THEN "A" ELSE IF name = "A" THEN "ego" ELSE name

SwapActors(scenario) ==
    [scenario EXCEPT !.maneuvergroups =
        [g \in 1..Len(scenario.maneuvergroups) |->
            [scenario.maneuvergroups[g] EXCEPT !.actors =
                [a \in 1..Len(scenario.maneuvergroups[g].actors) |->
                    SwapName(scenario.maneuvergroups[g].actors[a])]]]]

C24_EgoIsClassifiedLikeTheOthers ==
    pc = "returned" =>
        LET other == check_dynamic_errors(SwapActors(arg))
        IN  /\ other.raised = ret.raised
            /\ ~ret.raised =>
                  \A list \in 1..4 :
                      other.value[list]
                          = [k \in 1..Len(ret.value[list]) |-> SwapName(ret.value[list][k])]

\* ego alone, with a warning in both variables
C24_Witness ==
    /\ pc = "returned"
    /\ Len(arg.maneuvergroups) = 1
    /\ arg.maneuvergroups[1].actors = <<"ego">>
    /\ ret.value = <<<<>>, <<"ego">>, <<>>, <<"ego">>>>
    /\ check_dynamic_errors(SwapActors(arg)).value = <<<<>>, <<"A">>, <<>>, <<"A">>>>

(***************************************************************************)
(* C25  In the preprocessed text every placeholder '$name' of a parameter  *)
(* declared outside the storyboard stands replaced by the value of that    *)
(* parameter, also when another parameter's name is a prefix of the name,  *)
(* and every placeholder of a parameter declared only inside the           *)
(* storyboard is left as it is.                                            *)
(***************************************************************************)
NameCharacters == {"a", "b"}

RECURSIVE NameAt(_)
\* the longest run of name characters at the head of the text
NameAt(text) ==
    IF text = <<>> \/ text[1] \notin NameCharacters THEN <<>>
    ELSE <<text[1]>> \o NameAt(Tail(text))

DeclaredOutside(declarations, name) ==
    \E i \in 1..Len(declarations) :
        declarations[i].name = name /\ ~declarations[i].in_storyboard

DeclaredInside(declarations, name) ==
    \E i \in 1..Len(declarations) :
        declarations[i].name = name /\ declarations[i].in_storyboard

\* the value of the last declaration of the name outside the storyboard
ValueOutside(declarations, name) ==
    declarations[CHOOSE i \in 1..Len(declarations) :
        /\ declarations[i].name = name /\ ~declarations[i].in_storyboard
        /\ \A j \in (i + 1)..Len(declarations) :
              ~(declarations[j].name = name /\ ~declarations[j].in_storyboard)].value

RECURSIVE EveryPlaceholderDeclared(_, _)
\* every '$' of the text is followed by the name of a declared parameter
EveryPlaceholderDeclared(text, declarations) ==
    IF text = <<>> THEN TRUE
    ELSE IF text[1] # "$" THEN EveryPlaceholderDeclared(Tail(text), declarations)
    ELSE /\ \/ DeclaredOutside(declarations, NameAt(Tail(text)))
            \/ DeclaredInside(declarations, NameAt(Tail(text)))
         /\ EveryPlaceholderDeclared(Tail(text), declarations)

RECURSIVE Substituted(_, _)
\* the text with each placeholder of a parameter declared outside the
\* storyboard replaced by the parameter's value
Substituted(text, declarations) ==
    IF text = <<>> THEN <<>>
    ELSE IF text[1] = "$" /\ DeclaredOutside(declarations, NameAt(Tail(text)))
    THEN ValueOutside(declarations, NameAt(Tail(text)))
             \o Substituted(SubSeq(text, Len(NameAt(Tail(text))) + 2, Len(text)),
                            declarations)
    ELSE <<text[1]>> \o Substituted(Tail(text), declarations)

C25_PlaceholdersGetTheirOwnValue ==
    (pc = "returned" /\ EveryPlaceholderDeclared(arg.content, arg.parameter_declarations))
        => ret = Return(Substituted(arg.content, arg.parameter_declarations))

(***************************************************************************)
(* C26  Two or more entities at the sentinel position ('-', '-'), the      *)
(* position of every init teleport that is not in world coordinates, are   *)
(* reported together as one duplicate-position cluster.                    *)
(***************************************************************************)
C26_SentinelEntitiesFormOneCluster ==
    (pc = "returned" /\ Len(EntitiesAt(arg, Sentinel)) >= 2) =>
        /\ ~ret.raised
        /\ Cardinality({k \in 1..Len(ret.value) :
                            ret.value[k] = EntitiesAt(arg, Sentinel)}) = 1
        /\ \A k \in 1..Len(ret.value) :
              Range(ret.value[k]) \cap Range(EntitiesAt(arg, Sentinel)) # {}
                  => ret.value[k] = EntitiesAt(arg, Sentinel)

(***************************************************************************)
(* C27  The intersection list holds each unordered pair of entities at     *)
(* most once, with the entity that comes first in the init map listed      *)
(* first, and no pair of an entity with itself.                            *)
(***************************************************************************)
\* 0-based position of the entity in the init map
InitMapIndex(init_positions, name) == ListIndex(DictKeys(init_positions), name)

C27_PairsOnceAndInOrder ==
    (pc = "returned" /\ ~ret.raised) =>
        /\ \A k \in 1..Len(ret.value) :
              /\ Len(ret.value[k]) = 2
              /\ ret.value[k][1] # ret.value[k][2]
              /\ InitMapIndex(arg.init_positions, ret.value[k][1]) >= 0
              /\ InitMapIndex(arg.init_positions, ret.value[k][1])
                     < InitMapIndex(arg.init_positions, ret.value[k][2])
        /\ \A k, l \in 1..Len(ret.value) :
              Range(ret.value[k]) = Range(ret.value[l]) => k = l

\* three entities in a row: two pairs are reported, the outer two do not
\* touch
C27_Witness ==
    /\ pc = "returned"
    /\ ~ret.raised
    /\ Len(arg.init_positions) = 3
    /\ ret.value = << <<"A", "B">>, <<"B", "C">> >>

(***************************************************************************)
(* C28  Each entity has at most one trajectory classified and is at most   *)
(* once on each kinematic list: of the events named 'Trajectory_event_'    *)
(* owned by one actor, only the trajectory of the last one in traversal    *)
(* order is derived and classified, whatever the earlier ones violate.     *)
(***************************************************************************)
\* the <<group, event>> positions of the trajectory events owned by the
\* entity, the owner of a group being its first listed actor
TrajectoryEventsOf(scenario, entity) ==
    { t \in UNION { { <<g, e>> : e \in 1..Len(scenario.maneuvergroups[g].events) } :
                     g \in 1..Len(scenario.maneuvergroups) } :
        /\ Len(scenario.maneuvergroups[t[1]].actors) > 0
        /\ scenario.maneuvergroups[t[1]].actors[1] = entity
        /\ "Trajectory_event_" \in scenario.maneuvergroups[t[1]].events[t[2]].name
        /\ Len(scenario.maneuvergroups[t[1]].events[t[2]].action) > 0 }

\* the last of them in story / act / maneuver-group / maneuver / event order
LastTrajectoryEventOf(scenario, entity) ==
    CHOOSE t \in TrajectoryEventsOf(scenario, entity) :
        \A u \in TrajectoryEventsOf(scenario, entity) :
            u[1] < t[1] \/ (u[1] = t[1] /\ u[2] <= t[2])

\* the series derived from the trajectory of one event alone
SeriesOfEvent(scenario, t) ==
    LET action == scenario.maneuvergroups[t[1]].events[t[2]].action
        trajectory == action[Len(action)]
    IN  _calculate_acceleration_swimangle(
            _build_dynamic_data_df(trajectory.positions, trajectory.times).value)

ScannedEntities == {"ego", "A"}

C28_LastTrajectoryOnly ==
    (pc = "returned" /\ ~ret.dynamic_errors.raised) =>
        LET lists == ret.dynamic_errors.value
        IN  /\ \A list \in 1..4 : NoDuplicates(lists[list])
            /\ \A entity \in ScannedEntities :
                  IF TrajectoryEventsOf(arg, entity) = {}
                  THEN \A list \in 1..4 : entity \notin Range(lists[list])
                  ELSE LET df == SeriesOfEvent(arg, LastTrajectoryEventOf(arg, entity))
                       IN  /\ (entity \in Range(lists[1]))
                                  <=> SomeAccelerationAbove(df, ACCELERATION_ERROR_THRESHOLD)
                           /\ (entity \in Range(lists[2]))
                                  <=> (/\ ~SomeAccelerationAbove(df, ACCELERATION_ERROR_THRESHOLD)
                                       /\ SomeAccelerationAbove(df, ACCELERATION_WARNING_THRESHOLD))
                           /\ (entity \in Range(lists[3]))
                                  <=> SomeSwimangleAbove(df, SWIMANGLE_ERROR_THRESHOLD)
                           /\ (entity \in Range(lists[4]))
                                  <=> (/\ ~SomeSwimangleAbove(df, SWIMANGLE_ERROR_THRESHOLD)
                                       /\ SomeSwimangleAbove(df, SWIMANGLE_WARNING_THRESHOLD))

\* ego owns a trajectory in error and, after it, a clean one: no finding
C28_Witness ==
    /\ pc = "returned"
    /\ Len(arg.maneuvergroups) = 1
    /\ arg.maneuvergroups[1].actors = <<"ego">>
    /\ arg.maneuvergroups[1].events
           = << [name |-> {"Trajectory_event_"}, action |-> <<Trajectory(0, 30, 300)>>],
                [name |-> {"Trajectory_event_"}, action |-> <<CleanTrajectory>>] >>
    /\ ret.dynamic_errors = Return(<<<<>>, <<>>, <<>>, <<>>>>)

(***************************************************************************)
(* C29  The trajectory events of a maneuver group are attributed to the    *)
(* first listed actor of the group only, while its add events apply to     *)
(* every actor; a maneuver group without actors makes the kinematic check  *)
(* raise.                                                                  *)
(***************************************************************************)
C29_FirstActorOnly ==
    pc = "returned" =>
        /\ ret.dynamic_errors.raised
               <=> (\E g \in 1..Len(arg.maneuvergroups) :
                       Len(arg.maneuvergroups[g].actors) = 0)
        /\ ~ret.dynamic_errors.raised =>
               \A entity \in ScannedEntities :
                   (\E list \in 1..4 : entity \in Range(ret.dynamic_errors.value[list]))
                       => TrajectoryEventsOf(arg, entity) # {}
        /\ \A entity \in ScannedEntities :
               EventsFor(arg, "Add_", {}, entity) # {}
                   => entity \in Range(ret.added_removed[1])

\* a group of ego and A with a trajectory in error and an add event: the
\* finding names ego only, the add event both
C29_Witness ==
    /\ pc = "returned"
    /\ Len(arg.maneuvergroups) = 1
    /\ arg.maneuvergroups[1].actors = <<"ego", "A">>
    /\ Len(arg.maneuvergroups[1].events) = 2
    /\ ret.dynamic_errors = Return(<<<<"ego">>, <<>>, <<"ego">>, <<>>>>)
    /\ Range(ret.added_removed[1]) = {"ego", "A"}

====
